---- MODULE Spec2Model ----
(***************************************************************************)
(* BreatheBack frontend: the restoration-state calculation of a zone       *)
(* (HeatmapView.calculateState, ZoneInspector.calculateState), the         *)
(* progress figures of ZoneInspector.calculateProgressInfo, the zone       *)
(* identifier computed from a geolocation fix in HeatmapView, ActionsView  *)
(* and ReportFlow, the way from a zone drawn on the map to the inspector   *)
(* (renderZone, handleZoneTap, ZoneInspector.show), the map type toggle    *)
(* and its zone fetches, BottomSheetManager, the application state with    *)
(* its daily points and localStorage, the navigation bar with              *)
(* resetAllData and seedDemoData, and the three components that post       *)
(* reports and action completions: RestorationActionCard, ReportForm and   *)
(* ReportFlow.                                                             *)
(*                                                                         *)
(* Each part has a specification of its own, in which the variables of the *)
(* other parts are at rest: Spec, SpecGeo, SpecTap, SpecToggle,            *)
(* SpecSheets, SpecApp, SpecNav, SpecCard, SpecForm, SpecFlow.             *)
(*                                                                         *)
(* A JavaScript value that is either undefined/NaN or a number is a set:   *)
(* {} is undefined (NaN once it enters arithmetic) and {n} the number n.   *)
(***************************************************************************)
EXTENDS Integers, FiniteSets, Sequences, TLC

VARIABLES
    zone,            \* the zone object both components receive from GET /api/zones
    mapType,         \* the map type argument handed to calculateState
    state,           \* HeatmapView.renderZone: const state = this.calculateState(zone, mapType)
    actualState,     \* ZoneInspector.show: const actualState = this.calculateState(zoneData, mapType)
    progressInfo,    \* ZoneInspector.calculateProgressInfo(zoneData, mapType, actualState)
    pointsAdded,     \* the points reports and actions added to the zone since the page loaded
    position,        \* the fix navigator.geolocation delivers: [latitude, longitude]
    heatmapZoneId,   \* HeatmapView.addUserLocationMarker: const zoneId
    actionsZoneId,   \* ActionsView.currentZoneId
    reportZoneId,    \* ReportFlow.currentZoneId
    serverZone,      \* the entry of the tapped zone in GET /api/zones: {} when absent, else {zone}
    heatmapMapType,  \* HeatmapView.mapType
    overlay,         \* the rectangle renderZone drew: {} or {[state, color, mapType]}
    zoneInfo,        \* the object handleZoneTap hands to onZoneTap: {} or {[state, message, mapType]}
    inspector,       \* ZoneInspector: what show made of the container
    inFlight,        \* the zone fetches of HeatmapView awaiting their response, oldest first
    currentMapType,  \* appState.currentMapType
    sheets,          \* BottomSheetManager.sheets: the ids registered
    sheetHidden,     \* for each panel, whether its classList holds 'hidden'
    overlayHidden,   \* whether the classList of the overlay holds 'hidden'
    currentSheet,    \* BottomSheetManager.currentSheet: "null" or the id of its panel
    lastCall,        \* the call of BottomSheetManager made last
    summaryUpdated,  \* whether triggerUpdate has called pointsSummary.update()
    today,           \* new Date().toISOString().split('T')[0], as a day number
    userPoints,      \* appState.userPoints: {} is null, else {the object}
    currentView,     \* appState.currentView
    localStorage,    \* the items breatheback_zones, _user_points, _events, _current_view
    page,            \* "closed", or "running" once initializeApp has run
    lastHandler,     \* the handler that ran last
    navCurrentView,  \* NavigationBar.currentView; "null" while navigationBar is null
    heldZones,        \* appState.zones: the ids of the zones held
    heldEvents,       \* appState.events: the ids of the events held
    task,            \* where resetAllData and seedDemoData stand: the response awaited
    card,            \* a RestorationActionCard: its fields, its POSTs in flight, what it shows
    form,            \* a ReportForm: its fields, its POSTs in flight, its submit button
    flow             \* the ReportFlow: its fields, its POSTs in flight, its timers

zoneVars == <<zone, mapType, state, actualState, progressInfo, pointsAdded>>
geoVars == <<position, heatmapZoneId, actionsZoneId, reportZoneId>>
toggleVars == <<inFlight, currentMapType>>
appVars == <<today, userPoints, currentView, localStorage, page, lastHandler,
             navCurrentView, heldZones, heldEvents, task>>
sheetVars == <<sheets, sheetHidden, overlayHidden, currentSheet, lastCall, summaryUpdated>>
tapVars == <<serverZone, heatmapMapType, overlay, zoneInfo, inspector>>
reportVars == <<card, form, flow>>
vars == <<zone, mapType, state, actualState, progressInfo, pointsAdded,
          position, heatmapZoneId, actionsZoneId, reportZoneId,
          serverZone, heatmapMapType, overlay, zoneInfo, inspector,
          inFlight, currentMapType,
          sheets, sheetHidden, overlayHidden, currentSheet, lastCall, summaryUpdated,
          today, userPoints, currentView, localStorage, page, lastHandler,
          navCurrentView, heldZones, heldEvents, task,
          card, form, flow>>

\* what the steps of each specification leave alone
restOfZone == <<geoVars, tapVars, toggleVars, sheetVars, appVars, reportVars>>
restOfGeo == <<zoneVars, tapVars, toggleVars, sheetVars, appVars, reportVars>>
restOfTap == <<zoneVars, geoVars, toggleVars, sheetVars, appVars, reportVars>>
restOfToggle == <<zoneVars, geoVars, sheetVars, appVars, reportVars>>
restOfSheets == <<zoneVars, geoVars, tapVars, toggleVars, appVars, reportVars>>
restOfApp == <<zoneVars, geoVars, tapVars, toggleVars, sheetVars, reportVars>>
restOfCard == <<zoneVars, geoVars, tapVars, toggleVars, sheetVars, appVars, form, flow>>
restOfForm == <<zoneVars, geoVars, tapVars, toggleVars, sheetVars, appVars, card, flow>>
restOfFlow == <<zoneVars, geoVars, tapVars, toggleVars, sheetVars, appVars, card, form>>

-----------------------------------------------------------------------------
(* Bounds of the model *)

\* the reports behind each debt score of a stored zone
MaxReports == 2
\* the points one report or one completed action adds
MaxPoints == 2
\* the points added to a zone after the page loaded
MaxAdded == 2
\* how far, in units of 0.0001 degree, a fix lies from the places modelled
MaxOffset == 3
\* the largest raise of a score looked at, in steps of DEBT_INCREMENT
MaxJumps == 4
\* the zone fetches of HeatmapView awaiting their response at one time
MaxInFlight == 2
\* the days the application is followed over
MaxDays == 2
\* the actions completed on one day
MaxActions == 1
\* the POST requests one component may have in flight, and those the flow
\* may send for one report
MaxPosts == 2

\* backend/constants.py, as the README documents it: points added per report
DEBT_INCREMENT == 10

-----------------------------------------------------------------------------
(* JavaScript values and operators *)

Undefined == {}
Num(n) == {n}
Val(v) == CHOOSE n \in v : TRUE

\* ToBoolean of undefined or a number: undefined, NaN and 0 are falsy
Truthy(v) == v # {} /\ v # {0}
\* a || b
Or(a, b) == IF Truthy(a) THEN a ELSE b
\* a + b and a - b on numbers; undefined converts to NaN, NaN is absorbing
Plus(a, b) == IF a = {} \/ b = {} THEN {} ELSE {Val(a) + Val(b)}
Minus(a, b) == IF a = {} \/ b = {} THEN {} ELSE {Val(a) - Val(b)}
\* a > n; every comparison with NaN is false
Gt(a, n) == a # {} /\ Val(a) > n
\* Math.max(0, a)
MathMax0(a) == IF a = {} THEN {} ELSE IF Val(a) > 0 THEN a ELSE {0}

-----------------------------------------------------------------------------
(* HeatmapView *)

RECOVERED_THRESHOLD == 20
HEALING_THRESHOLD == -20

States == {"needs_restoration", "healing", "recovered"}

\* the map types of the toggle control
MapTypes == {"vape", "smoke", "all"}
\* every value calculateState is handed: the three map types, another
\* string, and an argument that is undefined
MapTypeValues == MapTypes \cup {"combined", "undefined"}

\* Mutant: the combined debt is used when the map type is not recognised.
HeatmapView_debt_fallbackAll(z, type) ==
    IF type = "vape" THEN Or(Or(z.vape_debt, z.vapeDebt), Num(0))
    ELSE IF type = "smoke" THEN Or(Or(z.smoke_debt, z.smokeDebt), Num(0))
    ELSE Plus(Or(Or(z.vape_debt, z.vapeDebt), Num(0)),
              Or(Or(z.smoke_debt, z.smokeDebt), Num(0)))

\* Mutant: the scores are read without the "|| 0" default.
HeatmapView_debt_noDefault(z, type) ==
    IF type = "vape" THEN Or(z.vape_debt, z.vapeDebt)
    ELSE IF type = "smoke" THEN Or(z.smoke_debt, z.smokeDebt)
    ELSE IF type = "all" THEN
        Plus(Or(z.vape_debt, z.vapeDebt), Or(z.smoke_debt, z.smokeDebt))
    ELSE Or(z.vape_debt, z.vapeDebt)

HeatmapView_debt(z, type) ==
    IF type = "vape" THEN Or(Or(z.vape_debt, z.vapeDebt), Num(0))
    ELSE IF type = "smoke" THEN Or(Or(z.smoke_debt, z.smokeDebt), Num(0))
    ELSE IF type = "all" THEN
        LET vapeDebt == Or(Or(z.vape_debt, z.vapeDebt), Num(0))
            smokeDebt == Or(Or(z.smoke_debt, z.smokeDebt), Num(0))
        IN  Plus(vapeDebt, smokeDebt)
    ELSE Or(Or(z.vape_debt, z.vapeDebt), Num(0))

\* Mutant: the combined view forgets the smoke restoration.
HeatmapView_restore_allVapeOnly(z, type) ==
    IF type = "smoke" THEN Or(Or(z.smoke_restore, z.smokeRestore), Num(0))
    ELSE Or(Or(z.vape_restore, z.vapeRestore), Num(0))

HeatmapView_restore(z, type) ==
    IF type = "vape" THEN Or(Or(z.vape_restore, z.vapeRestore), Num(0))
    ELSE IF type = "smoke" THEN Or(Or(z.smoke_restore, z.smokeRestore), Num(0))
    ELSE IF type = "all" THEN
        LET vapeRestore == Or(Or(z.vape_restore, z.vapeRestore), Num(0))
            smokeRestore == Or(Or(z.smoke_restore, z.smokeRestore), Num(0))
        IN  Plus(vapeRestore, smokeRestore)
    ELSE Or(Or(z.vape_restore, z.vapeRestore), Num(0))

\* Mutant: the thresholds are compared with >= instead of >.
HeatmapView_thresholds_ge(netScore) ==
    IF netScore # {} /\ Val(netScore) >= RECOVERED_THRESHOLD THEN "recovered"
    ELSE IF netScore # {} /\ Val(netScore) >= HEALING_THRESHOLD THEN "healing"
    ELSE "needs_restoration"

\* Mutant: the last branch tests the score again and has no else, so that
\* the function falls off its end at the boundary.
HeatmapView_thresholds_noElse(netScore) ==
    IF Gt(netScore, RECOVERED_THRESHOLD) THEN "recovered"
    ELSE IF Gt(netScore, HEALING_THRESHOLD) THEN "healing"
    ELSE IF netScore # {} /\ Val(netScore) < HEALING_THRESHOLD THEN "needs_restoration"
    ELSE "undefined"

HeatmapView_thresholds(netScore) ==
    IF Gt(netScore, RECOVERED_THRESHOLD) THEN "recovered"
    ELSE IF Gt(netScore, HEALING_THRESHOLD) THEN "healing"
    ELSE "needs_restoration"

\* Mutant: the net score is debt - restore.
HeatmapView_calculateState_swapped(z, type) ==
    LET debt == HeatmapView_debt(z, type)
        restore == HeatmapView_restore(z, type)
        netScore == Minus(debt, restore)
    IN  HeatmapView_thresholds(netScore)

HeatmapView_calculateState(z, type) ==
    LET debt == HeatmapView_debt(z, type)
        restore == HeatmapView_restore(z, type)
        netScore == Minus(restore, debt)
    IN  HeatmapView_thresholds(netScore)

-----------------------------------------------------------------------------
(* ZoneInspector *)

ZoneInspector_RECOVERED_THRESHOLD == 20
ZoneInspector_HEALING_THRESHOLD == -20

\* Mutant: the smoke branch reads the vape debt.
ZoneInspector_debt_smokeReadsVape(zoneData, type) ==
    IF type = "all" THEN
        Plus(Or(Or(zoneData.vape_debt, zoneData.vapeDebt), Num(0)),
             Or(Or(zoneData.smoke_debt, zoneData.smokeDebt), Num(0)))
    ELSE Or(Or(zoneData.vape_debt, zoneData.vapeDebt), Num(0))

ZoneInspector_debt(zoneData, type) ==
    IF type = "vape" THEN Or(Or(zoneData.vape_debt, zoneData.vapeDebt), Num(0))
    ELSE IF type = "smoke" THEN Or(Or(zoneData.smoke_debt, zoneData.smokeDebt), Num(0))
    ELSE IF type = "all" THEN
        LET vapeDebt == Or(Or(zoneData.vape_debt, zoneData.vapeDebt), Num(0))
            smokeDebt == Or(Or(zoneData.smoke_debt, zoneData.smokeDebt), Num(0))
        IN  Plus(vapeDebt, smokeDebt)
    ELSE Or(Or(zoneData.vape_debt, zoneData.vapeDebt), Num(0))

ZoneInspector_restore(zoneData, type) ==
    IF type = "vape" THEN Or(Or(zoneData.vape_restore, zoneData.vapeRestore), Num(0))
    ELSE IF type = "smoke" THEN Or(Or(zoneData.smoke_restore, zoneData.smokeRestore), Num(0))
    ELSE IF type = "all" THEN
        LET vapeRestore == Or(Or(zoneData.vape_restore, zoneData.vapeRestore), Num(0))
            smokeRestore == Or(Or(zoneData.smoke_restore, zoneData.smokeRestore), Num(0))
        IN  Plus(vapeRestore, smokeRestore)
    ELSE Or(Or(zoneData.vape_restore, zoneData.vapeRestore), Num(0))

\* Mutant: the thresholds are compared with >= instead of >.
ZoneInspector_thresholds_ge(netScore) ==
    IF netScore # {} /\ Val(netScore) >= ZoneInspector_RECOVERED_THRESHOLD THEN "recovered"
    ELSE IF netScore # {} /\ Val(netScore) >= ZoneInspector_HEALING_THRESHOLD THEN "healing"
    ELSE "needs_restoration"

ZoneInspector_thresholds(netScore) ==
    IF Gt(netScore, ZoneInspector_RECOVERED_THRESHOLD) THEN "recovered"
    ELSE IF Gt(netScore, ZoneInspector_HEALING_THRESHOLD) THEN "healing"
    ELSE "needs_restoration"

\* Mutant: the thresholds of this copy have drifted from the heatmap's.
ZoneInspector_calculateState_drifted(zoneData, type) ==
    LET debt == ZoneInspector_debt(zoneData, type)
        restore == ZoneInspector_restore(zoneData, type)
        netScore == Minus(restore, debt)
    IN  IF Gt(netScore, ZoneInspector_RECOVERED_THRESHOLD + 5) THEN "recovered"
        ELSE IF Gt(netScore, ZoneInspector_HEALING_THRESHOLD - 5) THEN "healing"
        ELSE "needs_restoration"

ZoneInspector_calculateState(zoneData, type) ==
    LET debt == ZoneInspector_debt(zoneData, type)
        restore == ZoneInspector_restore(zoneData, type)
        netScore == Minus(restore, debt)
    IN  ZoneInspector_thresholds(netScore)

\* calculateProgressInfo has thresholds and a score selection of its own
ProgressInfo_RECOVERED_THRESHOLD == 20
ProgressInfo_HEALING_THRESHOLD == -20

ProgressInfo_debt(zoneData, type) ==
    IF type = "vape" THEN Or(Or(zoneData.vape_debt, zoneData.vapeDebt), Num(0))
    ELSE IF type = "smoke" THEN Or(Or(zoneData.smoke_debt, zoneData.smokeDebt), Num(0))
    ELSE IF type = "all" THEN
        LET vapeDebt == Or(Or(zoneData.vape_debt, zoneData.vapeDebt), Num(0))
            smokeDebt == Or(Or(zoneData.smoke_debt, zoneData.smokeDebt), Num(0))
        IN  Plus(vapeDebt, smokeDebt)
    ELSE Or(Or(zoneData.vape_debt, zoneData.vapeDebt), Num(0))

ProgressInfo_restore(zoneData, type) ==
    IF type = "vape" THEN Or(Or(zoneData.vape_restore, zoneData.vapeRestore), Num(0))
    ELSE IF type = "smoke" THEN Or(Or(zoneData.smoke_restore, zoneData.smokeRestore), Num(0))
    ELSE IF type = "all" THEN
        LET vapeRestore == Or(Or(zoneData.vape_restore, zoneData.vapeRestore), Num(0))
            smokeRestore == Or(Or(zoneData.smoke_restore, zoneData.smokeRestore), Num(0))
        IN  Plus(vapeRestore, smokeRestore)
    ELSE Or(Or(zoneData.vape_restore, zoneData.vapeRestore), Num(0))

\* Mutant: the "+ 1" that exceeds the threshold is missing.
pointsToHealing_noPlusOne(netScore) ==
    MathMax0(Minus(Num(ProgressInfo_HEALING_THRESHOLD), netScore))

\* pointsToHealing: Math.max(0, HEALING_THRESHOLD - netScore + 1)
pointsToHealing(netScore) ==
    MathMax0(Plus(Minus(Num(ProgressInfo_HEALING_THRESHOLD), netScore), Num(1)))

\* pointsToRecovered: Math.max(0, RECOVERED_THRESHOLD - netScore + 1)
pointsToRecovered(netScore) ==
    MathMax0(Plus(Minus(Num(ProgressInfo_RECOVERED_THRESHOLD), netScore), Num(1)))

\* The figures the returned HTML carries: toHealing and toRecovered are the
\* numbers of the two progress items, {} where the item is not rendered;
\* netScore is the "Current net score" line.
ZoneInspector_calculateProgressInfo(zoneData, type, currentState) ==
    LET debt == ProgressInfo_debt(zoneData, type)
        restore == ProgressInfo_restore(zoneData, type)
        netScore == Minus(restore, debt)
    IN  IF currentState = "needs_restoration" THEN
            [toHealing |-> pointsToHealing(netScore),
             toRecovered |-> pointsToRecovered(netScore),
             netScore |-> netScore]
        ELSE IF currentState = "healing" THEN
            [toHealing |-> {},
             toRecovered |-> pointsToRecovered(netScore),
             netScore |-> netScore]
        ELSE
            [toHealing |-> {}, toRecovered |-> {}, netScore |-> netScore]

-----------------------------------------------------------------------------
(* The zone data and the operations that change what is displayed *)

ScoreNames == {"vape_debt", "vape_restore", "smoke_debt", "smoke_restore"}

\* the camelCase spelling calculateState accepts next to each snake_case one
camelCase(f) ==
    CASE f = "vape_debt" -> "vapeDebt"
      [] f = "vape_restore" -> "vapeRestore"
      [] f = "smoke_debt" -> "smokeDebt"
      [] f = "smoke_restore" -> "smokeRestore"

PropertyNames == ScoreNames \cup {camelCase(f) : f \in ScoreNames}

\* no score property at all
EmptyZone == [p \in PropertyNames |-> Undefined]

\* the value the zone holds for score f, under whichever spelling is in use
score(z, f) == Or(Or(z[f], z[camelCase(f)]), Num(0))

usesCamelCase(z) == \E f \in ScoreNames : z[camelCase(f)] # Undefined

\* the property that holds score f: the one present, else the one the
\* spelling of the zone's other properties calls for
propertyOf(z, f) ==
    IF z[f] # Undefined THEN f
    ELSE IF z[camelCase(f)] # Undefined THEN camelCase(f)
    ELSE IF usesCamelCase(z) THEN camelCase(f)
    ELSE f

\* the zone with score f raised by points
addPoints(z, f, points) ==
    [z EXCEPT ![propertyOf(z, f)] = Num(Val(score(z, f)) + points)]

\* The zones the API may hold when the page loads: every score is left out
\* or a multiple of DEBT_INCREMENT, in snake_case (the API's spelling) or in
\* camelCase.
StoredScores == {Undefined} \cup {Num(DEBT_INCREMENT * k) : k \in 0..MaxReports}

StoredZones ==
    { [p \in PropertyNames |->
          IF p \in ScoreNames
          THEN (IF camel THEN Undefined ELSE scores[p])
          ELSE (IF camel THEN scores[CHOOSE f \in ScoreNames : camelCase(f) = p]
                ELSE Undefined)] :
      scores \in [ScoreNames -> StoredScores], camel \in BOOLEAN }

\* what the two components show for zone z under map type `type`
Display(z, type) ==
    /\ state' = HeatmapView_calculateState(z, type)
    /\ actualState' = ZoneInspector_calculateState(z, type)
    /\ progressInfo' = ZoneInspector_calculateProgressInfo(z, type, actualState')

ZoneInit ==
    /\ zone \in StoredZones
    /\ pointsAdded = 0
    /\ mapType = "vape"
    /\ state = HeatmapView_calculateState(zone, mapType)
    /\ actualState = ZoneInspector_calculateState(zone, mapType)
    /\ progressInfo = ZoneInspector_calculateProgressInfo(zone, mapType, actualState)

\* POST /api/reports: the zone's debt of the reported type grows; the views
\* fetch the zone again and classify it
ReportLogged(type, points) ==
    /\ pointsAdded + points <= MaxAdded
    /\ pointsAdded' = pointsAdded + points
    /\ zone' = addPoints(zone, type \o "_debt", points)
    /\ mapType' = mapType
    /\ Display(zone', mapType')

\* POST /api/actions: the zone's restore score of the action's type grows
ActionCompleted(type, points) ==
    /\ pointsAdded + points <= MaxAdded
    /\ pointsAdded' = pointsAdded + points
    /\ zone' = addPoints(zone, type \o "_restore", points)
    /\ mapType' = mapType
    /\ Display(zone', mapType')

\* renderZone(zone, mapType) / show(zoneInfo) with another map type
RenderZone(type) ==
    /\ type # mapType
    /\ mapType' = type
    /\ UNCHANGED <<zone, pointsAdded>>
    /\ Display(zone', mapType')

-----------------------------------------------------------------------------
(* The zone identifier of a geolocation fix *)

\* Coordinates are counted in units of 0.0001 degree, so that the grid size
\* 0.01 of the three components is 100 units.
HeatmapView_ZONE_GRID_SIZE == 100
ActionsView_ZONE_GRID_SIZE == 100
ReportFlow_ZONE_GRID_SIZE == 100

\* The multiples k of 0.01 degree, between -0.46 and 0.46 degree, whose
\* double-precision quotient (k * 0.01) / 0.01 is below k: -0.28, -0.14,
\* -0.07 and 0.29 (0.29 / 0.01 is 28.999999999999996).  No coordinate that
\* is not a multiple of 0.01 has a quotient on the other side of an integer,
\* and the multiples 37.77, 37.78, -122.42 and -122.41 divide exactly.
QuotientBelow == {-28, -14, -7, 29}

\* Math.floor(x / size), the division carried out on doubles
MathFloorOfQuotient(x, size) ==
    LET k == x \div size
    IN  IF x % size = 0 /\ k \in QuotientBelow THEN k - 1 ELSE k

\* `zone_${latGrid}_${lngGrid}`
zoneIdString(latGrid, lngGrid) ==
    "zone_" \o ToString(latGrid) \o "_" \o ToString(lngGrid)

HeatmapView_calculateZoneId(lat, lng) ==
    LET latGrid == MathFloorOfQuotient(lat, HeatmapView_ZONE_GRID_SIZE)
        lngGrid == MathFloorOfQuotient(lng, HeatmapView_ZONE_GRID_SIZE)
    IN  zoneIdString(latGrid, lngGrid)

ActionsView_currentZoneId(currentLocation) ==
    LET latGrid == MathFloorOfQuotient(currentLocation.latitude, ActionsView_ZONE_GRID_SIZE)
        lngGrid == MathFloorOfQuotient(currentLocation.longitude, ActionsView_ZONE_GRID_SIZE)
    IN  zoneIdString(latGrid, lngGrid)

\* Mutant: the quotient is truncated toward zero instead of floored.
ReportFlow_currentZoneId_trunc(currentLocation) ==
    LET trunc(x) == IF x < 0 THEN -((-x) \div ReportFlow_ZONE_GRID_SIZE)
                    ELSE x \div ReportFlow_ZONE_GRID_SIZE
    IN  zoneIdString(trunc(currentLocation.latitude), trunc(currentLocation.longitude))

ReportFlow_currentZoneId(currentLocation) ==
    LET latGrid == MathFloorOfQuotient(currentLocation.latitude, ReportFlow_ZONE_GRID_SIZE)
        lngGrid == MathFloorOfQuotient(currentLocation.longitude, ReportFlow_ZONE_GRID_SIZE)
    IN  zoneIdString(latGrid, lngGrid)

\* The fixes of the model lie within MaxOffset units of the equator and the
\* prime meridian, of 0.29 N and 0.07 W, and of (37.7749, -122.4194).
Latitudes == {a + d : a \in {0, 2900, 377749}, d \in -MaxOffset..MaxOffset}
Longitudes == {a + d : a \in {0, -700, -1224194}, d \in -MaxOffset..MaxOffset}

GeoInit ==
    /\ position \in [latitude : Latitudes, longitude : Longitudes]
    /\ heatmapZoneId = "null"
    /\ actionsZoneId = "null"
    /\ reportZoneId = "null"

\* HeatmapView.centerOnUserLocation / updateUserLocation: the position
\* callback calls addUserLocationMarker(lat, lng)
HeatmapView_addUserLocationMarker ==
    /\ heatmapZoneId' = HeatmapView_calculateZoneId(position.latitude, position.longitude)
    /\ UNCHANGED <<position, actionsZoneId, reportZoneId>>

\* ActionsView.getUserLocation: the position callback
ActionsView_getUserLocation ==
    /\ actionsZoneId' = ActionsView_currentZoneId(position)
    /\ UNCHANGED <<position, heatmapZoneId, reportZoneId>>

\* ReportFlow.requestLocation, the position obtained
ReportFlow_requestLocation ==
    /\ reportZoneId' = ReportFlow_currentZoneId(position)
    /\ UNCHANGED <<position, heatmapZoneId, actionsZoneId>>

\* no fix taken: the location part at rest while zones are displayed
GeoIdle ==
    /\ position = [latitude |-> 0, longitude |-> 0]
    /\ heatmapZoneId = "null"
    /\ actionsZoneId = "null"
    /\ reportZoneId = "null"

-----------------------------------------------------------------------------
(* A zone drawn on the map, tapped, and shown in the inspector *)

\* Mutant: the key of the first color is spelled with a hyphen.
HeatmapView_stateColors_hyphen ==
    [s \in {"needs-restoration", "healing", "recovered"} |->
        CASE s = "needs-restoration" -> "#F4D03F"
          [] s = "healing" -> "#52BE80"
          [] s = "recovered" -> "#5DADE2"]

HeatmapView_stateColors ==
    [s \in {"needs_restoration", "healing", "recovered"} |->
        CASE s = "needs_restoration" -> "#F4D03F"
          [] s = "healing" -> "#52BE80"
          [] s = "recovered" -> "#5DADE2"]

HeatmapView_stateMessages ==
    [s \in {"needs_restoration", "healing", "recovered"} |->
        CASE s = "needs_restoration" -> "This space needs care"
          [] s = "healing" -> "This space is healing"
          [] s = "recovered" -> "This space has recovered"]

ZoneInspector_stateMessages ==
    [s \in {"needs_restoration", "healing", "recovered"} |->
        CASE s = "needs_restoration" -> "This space needs care"
          [] s = "healing" -> "This space is healing"
          [] s = "recovered" -> "This space has recovered"]

ZoneInspector_stateColors ==
    [s \in {"needs_restoration", "healing", "recovered"} |->
        CASE s = "needs_restoration" -> "#F4D03F"
          [] s = "healing" -> "#52BE80"
          [] s = "recovered" -> "#5DADE2"]

\* table[key]: undefined when the object has no such property
Lookup(table, key) == IF key \in DOMAIN table THEN table[key] ELSE "undefined"
\* a || b on strings that are not empty
OrString(a, b) == IF a = "undefined" THEN b ELSE a

\* the zone object show builds when it has no data of the zone
defaultZoneData ==
    [EmptyZone EXCEPT !.vape_debt = Num(0), !.vape_restore = Num(0),
                      !.smoke_debt = Num(0), !.smoke_restore = Num(0)]

\* The entries the API may hold for the tapped zone: of each pair of scores
\* at most one is there, and it is past the thresholds.
TapScore == Num(DEBT_INCREMENT * (MaxReports + 1))
TapPairs == {<<Undefined, Undefined>>, <<TapScore, Undefined>>, <<Undefined, TapScore>>}
TapZones ==
    { [EmptyZone EXCEPT !.vape_debt = vape[1], !.vape_restore = vape[2],
                        !.smoke_debt = smoke[1], !.smoke_restore = smoke[2]] :
      vape \in TapPairs, smoke \in TapPairs }
ServerEntries == {{}} \cup {{z} : z \in TapZones}

\* how the fetch of show ends: response.ok, a response that is not OK, or a
\* rejected fetch (the catch branch)
FetchOutcomes == {"ok", "not_ok", "failed"}

NoRender == [outcome |-> "none", fetching |-> FALSE,
             actualState |-> "undefined", message |-> "undefined",
             stateColor |-> "undefined", zoneData |-> {}]

TapInit ==
    /\ serverZone \in ServerEntries
    /\ heatmapMapType \in MapTypes
    /\ overlay = {}
    /\ zoneInfo = {}
    /\ inspector = NoRender

\* reports, actions and resets of any client change the zone's entry
ServerZoneChanges ==
    /\ serverZone' \in ServerEntries \ {serverZone}
    /\ UNCHANGED <<heatmapMapType, overlay, zoneInfo, inspector>>

\* renderZones(zones, mapType): the overlays are cleared and every zone of
\* the list is drawn by renderZone; the result is the overlay of the zone
HeatmapView_renderZones(zones, type) ==
    IF zones = {} THEN {}
    ELSE LET z == CHOOSE x \in zones : TRUE
             s == HeatmapView_calculateState(z, type)
             color == Lookup(HeatmapView_stateColors, s)
         IN  {[state |-> s, color |-> color, mapType |-> type]}

\* the zones fetched are drawn: renderZones(zones, this.mapType)
HeatmapView_renderZone ==
    /\ overlay' = HeatmapView_renderZones(serverZone, heatmapMapType)
    /\ UNCHANGED <<serverZone, heatmapMapType, zoneInfo, inspector>>

\* the part of show before its fetch: the guards and this.currentZone
ZoneInspector_showBegins(info) ==
    IF info.state = "undefined" THEN inspector' = inspector
    ELSE inspector' = [inspector EXCEPT !.fetching = TRUE]

\* a click on the rectangle: handleZoneTap(zone.id, state) with the state
\* the rectangle was drawn with; onZoneTap calls show
HeatmapView_handleZoneTap ==
    /\ overlay # {}
    /\ ~inspector.fetching
    /\ LET o == CHOOSE x \in overlay : TRUE
           info == [state |-> o.state,
                    message |-> Lookup(HeatmapView_stateMessages, o.state),
                    mapType |-> heatmapMapType]
       IN  /\ zoneInfo' = {info}
           /\ ZoneInspector_showBegins(info)
    /\ UNCHANGED <<serverZone, heatmapMapType, overlay>>

\* a click on the highlight of the user's zone: the state is calculated
\* from the zone the app state holds, or is 'needs_restoration' when it
\* holds none
HeatmapView_userZoneClicked ==
    /\ ~inspector.fetching
    /\ \E appZone \in ServerEntries :
           LET s == IF appZone = {} THEN "needs_restoration"
                    ELSE HeatmapView_calculateState(CHOOSE x \in appZone : TRUE,
                                                    heatmapMapType)
               info == [state |-> s,
                        message |-> Lookup(HeatmapView_stateMessages, s),
                        mapType |-> heatmapMapType]
           IN  /\ zoneInfo' = {info}
               /\ ZoneInspector_showBegins(info)
    /\ UNCHANGED <<serverZone, heatmapMapType, overlay>>

\* zoneData after the try block of show: null is {}
ZoneInspector_fetchedZoneData(outcome, zones) ==
    IF outcome = "ok" THEN (IF zones # {} THEN zones ELSE {defaultZoneData})
    ELSE IF outcome = "not_ok" THEN {}
    ELSE {defaultZoneData}

\* Mutant: show displays the state handed over in zoneInfo instead of
\* calculating it from the fetched data.
ZoneInspector_show_trustsZoneInfo(outcome) ==
    /\ inspector.fetching
    /\ LET info == CHOOSE x \in zoneInfo : TRUE
           zoneData == ZoneInspector_fetchedZoneData(outcome, serverZone)
       IN  IF zoneData = {}
           THEN inspector' = [inspector EXCEPT !.outcome = "TypeError",
                                               !.fetching = FALSE]
           ELSE LET actual == info.state
                    message == OrString(Lookup(ZoneInspector_stateMessages, actual),
                                        "Zone information unavailable")
                    stateColor == OrString(Lookup(ZoneInspector_stateColors, actual),
                                           "#B8C4D0")
                IN  inspector' = [outcome |-> "rendered",
                                  fetching |-> FALSE, actualState |-> actual,
                                  message |-> message, stateColor |-> stateColor,
                                  zoneData |-> zoneData]
    /\ UNCHANGED <<serverZone, heatmapMapType, overlay, zoneInfo>>

\* the part of show after its fetch
ZoneInspector_show(outcome) ==
    /\ inspector.fetching
    /\ LET info == CHOOSE x \in zoneInfo : TRUE
           zoneData == ZoneInspector_fetchedZoneData(outcome, serverZone)
       IN  IF zoneData = {}
           THEN \* calculateState reads zoneData.vape_debt of null
                inspector' = [inspector EXCEPT !.outcome = "TypeError",
                                               !.fetching = FALSE]
           ELSE LET actual == ZoneInspector_calculateState(CHOOSE x \in zoneData : TRUE,
                                                           info.mapType)
                    message == OrString(Lookup(ZoneInspector_stateMessages, actual),
                                        "Zone information unavailable")
                    stateColor == OrString(Lookup(ZoneInspector_stateColors, actual),
                                           "#B8C4D0")
                IN  inspector' = [outcome |-> "rendered",
                                  fetching |-> FALSE, actualState |-> actual,
                                  message |-> message, stateColor |-> stateColor,
                                  zoneData |-> zoneData]
    /\ UNCHANGED <<serverZone, heatmapMapType, overlay, zoneInfo>>

\* the items saveStateToStorage writes to localStorage
SavedItems == {"zones", "userPoints", "events", "currentView", "currentMapType"}
\* the properties of a zone saved there: { id, ...zone }
savedZoneProperties(z) == {"id"} \cup {p \in PropertyNames : z[p] # Undefined}

\* no zone tapped: the inspector part at rest
TapIdle ==
    /\ serverZone = {}
    /\ heatmapMapType = "vape"
    /\ overlay = {}
    /\ zoneInfo = {}
    /\ inspector = NoRender

-----------------------------------------------------------------------------
(* The map type toggle of HeatmapView and its zone fetches *)

\* updateMapType(mapType), the onMapTypeToggle callback: 'all' is rejected
updateMapType(type) ==
    IF type # "vape" /\ type # "smoke" THEN currentMapType' = currentMapType
    ELSE currentMapType' = type

\* the sequence without its i-th element
RemoveAt(seq, i) == SubSeq(seq, 1, i - 1) \o SubSeq(seq, i + 1, Len(seq))

\* handleMapTypeToggle(type) up to its fetch
HeatmapView_handleMapTypeToggle(type) ==
    /\ ~(type # "vape" /\ type # "smoke" /\ type # "all")
    /\ type # heatmapMapType
    /\ Len(inFlight) < MaxInFlight
    /\ heatmapMapType' = type
    /\ inFlight' = Append(inFlight, [by |-> "toggle", type |-> type])
    /\ UNCHANGED <<serverZone, overlay, zoneInfo, inspector, currentMapType>>

\* Mutant: the response is drawn with this.mapType, as update() does.
HeatmapView_toggleResponse_currentType(i, outcome) ==
    /\ i \in 1..Len(inFlight)
    /\ inFlight[i].by = "toggle"
    /\ \E appZones \in ServerEntries :
           LET zones == IF outcome = "ok" THEN serverZone ELSE appZones
           IN  overlay' = HeatmapView_renderZones(zones, heatmapMapType)
    /\ inFlight' = RemoveAt(inFlight, i)
    /\ updateMapType(inFlight[i].type)
    /\ UNCHANGED <<serverZone, heatmapMapType, zoneInfo, inspector>>

\* handleMapTypeToggle(type) from the response of its fetch on: the zones
\* fetched, or those of the app state when the fetch failed, are drawn with
\* the type of the call, and onMapTypeToggle(type) is called
HeatmapView_toggleResponse(i, outcome) ==
    /\ i \in 1..Len(inFlight)
    /\ inFlight[i].by = "toggle"
    /\ \E appZones \in ServerEntries :
           LET type == inFlight[i].type
               zones == IF outcome = "ok" THEN serverZone ELSE appZones
           IN  overlay' = HeatmapView_renderZones(zones, type)
    /\ inFlight' = RemoveAt(inFlight, i)
    /\ updateMapType(inFlight[i].type)
    /\ UNCHANGED <<serverZone, heatmapMapType, zoneInfo, inspector>>

\* update() up to its fetch
HeatmapView_update ==
    /\ Len(inFlight) < MaxInFlight
    /\ inFlight' = Append(inFlight, [by |-> "update", type |-> "undefined"])
    /\ UNCHANGED <<serverZone, heatmapMapType, overlay, zoneInfo, inspector, currentMapType>>

\* update() from the response on: the zones are drawn with this.mapType;
\* nothing is drawn when the fetch failed
HeatmapView_updateResponse(i, outcome) ==
    /\ i \in 1..Len(inFlight)
    /\ inFlight[i].by = "update"
    /\ overlay' = IF outcome = "ok"
                  THEN HeatmapView_renderZones(serverZone, heatmapMapType)
                  ELSE overlay
    /\ inFlight' = RemoveAt(inFlight, i)
    /\ UNCHANGED <<serverZone, heatmapMapType, zoneInfo, inspector, currentMapType>>

\* the map opened with the stored map type, no fetch under way
ToggleInit ==
    /\ serverZone \in ServerEntries
    /\ currentMapType \in {"vape", "smoke"}
    /\ heatmapMapType = currentMapType
    /\ overlay = {}
    /\ zoneInfo = {}
    /\ inspector = NoRender
    /\ inFlight = <<>>

\* no fetch of the map under way: the toggle part at rest
ToggleIdle ==
    /\ inFlight = <<>>
    /\ currentMapType = "vape"

-----------------------------------------------------------------------------
(* BottomSheetManager *)

\* the sheets init() registers when their panels exist
SheetIds == {"points", "zone", "actions"}
\* the ids open() is called with: the three sheets and ids of no sheet
OpenIds == SheetIds \cup {"settings", "undefined"}

\* after init(): the panels found are registered, all hidden
SheetsInit ==
    /\ sheets \in SUBSET SheetIds
    /\ sheetHidden = [id \in SheetIds |-> TRUE]
    /\ overlayHidden = TRUE
    /\ currentSheet = "null"
    /\ lastCall = [op |-> "init", sheetId |-> "undefined"]
    /\ summaryUpdated = FALSE

\* triggerUpdate(sheetId): the points panel is rendered anew when it opens
triggerUpdate(sheetId) ==
    summaryUpdated' = IF sheetId = "points" THEN TRUE ELSE summaryUpdated

\* Mutant: the sheet that is open is not hidden before the new one is shown.
BottomSheetManager_open_keepsCurrent(sheetId) ==
    /\ lastCall' = [op |-> "open", sheetId |-> sheetId]
    /\ IF sheetId \notin sheets
       THEN UNCHANGED <<sheets, sheetHidden, overlayHidden, currentSheet, summaryUpdated>>
       ELSE /\ sheetHidden' = [sheetHidden EXCEPT ![sheetId] = FALSE]
            /\ overlayHidden' = FALSE
            /\ currentSheet' = sheetId
            /\ triggerUpdate(sheetId)
            /\ UNCHANGED sheets

\* open(sheetId)
BottomSheetManager_open(sheetId) ==
    /\ lastCall' = [op |-> "open", sheetId |-> sheetId]
    /\ IF sheetId \notin sheets
       THEN UNCHANGED <<sheets, sheetHidden, overlayHidden, currentSheet, summaryUpdated>>
       ELSE LET closed == IF currentSheet # "null"
                          THEN [sheetHidden EXCEPT ![currentSheet] = TRUE]
                          ELSE sheetHidden
            IN  /\ sheetHidden' = [closed EXCEPT ![sheetId] = FALSE]
                /\ overlayHidden' = FALSE
                /\ currentSheet' = sheetId
                /\ triggerUpdate(sheetId)
                /\ UNCHANGED sheets

\* closeAll()
BottomSheetManager_closeAll ==
    /\ lastCall' = [op |-> "closeAll", sheetId |-> "undefined"]
    /\ sheetHidden' = IF currentSheet # "null"
                      THEN [sheetHidden EXCEPT ![currentSheet] = TRUE]
                      ELSE sheetHidden
    /\ currentSheet' = "null"
    /\ overlayHidden' = TRUE
    /\ UNCHANGED <<sheets, summaryUpdated>>

\* isOpen()
BottomSheetManager_isOpen == currentSheet # "null"

\* no sheet registered yet: the sheets part at rest
SheetsIdle ==
    /\ sheets = {}
    /\ sheetHidden = [id \in SheetIds |-> TRUE]
    /\ overlayHidden = TRUE
    /\ currentSheet = "null"
    /\ lastCall = [op |-> "init", sheetId |-> "undefined"]
    /\ summaryUpdated = FALSE

-----------------------------------------------------------------------------
(* The application state: daily points, current view, localStorage *)

\* the lists of actions completed on one day, by type
RECURSIVE ActionLists(_)
ActionLists(n) ==
    IF n = 0 THEN {<<>>}
    ELSE ActionLists(n - 1) \cup
         {Append(l, t) : l \in {x \in ActionLists(n - 1) : Len(x) = n - 1},
                         t \in {"vape", "smoke"}}

\* the number of actions of one type in a list
CountOf(l, t) == Cardinality({i \in 1..Len(l) : l[i] = t})

\* the object appState.userPoints holds after a day dated d with the
\* actions l, each worth one point
PointsOf(d, l) ==
    [date |-> d, totalPoints |-> Len(l), actionsCompleted |-> Len(l),
     vapePoints |-> CountOf(l, "vape"), smokePoints |-> CountOf(l, "smoke"),
     actions |-> l]

\* the object GET /api/points and POST /api/actions answer with: snake_case
ApiPointsOf(d, l) ==
    [date |-> d,
     total_points |-> Num(Len(l)), totalPoints |-> Undefined,
     actions_completed |-> Num(Len(l)), actionsCompleted |-> Undefined,
     vape_points |-> Num(CountOf(l, "vape")), vapePoints |-> Undefined,
     smoke_points |-> Num(CountOf(l, "smoke")), smokePoints |-> Undefined,
     actions |-> {l}]

\* saveStateToStorage(): userPoints is written when it is not null; an item
\* of localStorage is {} while it was never written
saveStateToStorage(storage, zoneIds, points, eventIds, view) ==
    [zones |-> {zoneIds},
     userPoints |-> IF points # {} THEN points ELSE storage.userPoints,
     events |-> {eventIds},
     currentView |-> view]

\* initializeUserPoints(): the object it assigns
freshUserPoints(day) ==
    [date |-> {day}, totalPoints |-> 0, actionsCompleted |-> 0,
     vapePoints |-> 0, smokePoints |-> 0, actions |-> <<>>]

\* Mutant: a new day only moves the date; the points are kept.
checkDailyReset_keepsPoints(points, day) ==
    IF points = {} THEN {freshUserPoints(day)}
    ELSE LET storedDate == (CHOOSE x \in points : TRUE).date
         IN  IF storedDate # {day}
             THEN {[(CHOOSE x \in points : TRUE) EXCEPT !.date = {day}]}
             ELSE points

\* checkDailyReset(): the value of appState.userPoints after it
checkDailyReset(points, day) ==
    IF points = {} THEN {freshUserPoints(day)}
    ELSE LET storedDate == (CHOOSE x \in points : TRUE).date
         IN  IF storedDate # {day} THEN {freshUserPoints(day)} ELSE points

\* updatePoints(points): the object assigned to appState.userPoints
convertPoints(points) ==
    LET pick(snake, camel) == IF snake # Undefined THEN snake ELSE Or(camel, Num(0))
    IN  [date |-> points.date,
         totalPoints |-> Val(pick(points.total_points, points.totalPoints)),
         actionsCompleted |-> Val(pick(points.actions_completed, points.actionsCompleted)),
         vapePoints |-> Val(pick(points.vape_points, points.vapePoints)),
         smokePoints |-> Val(pick(points.smoke_points, points.smokePoints)),
         actions |-> IF points.actions = {} THEN <<>>
                     ELSE CHOOSE l \in points.actions : TRUE]

\* PointsSummary.checkDailyReset(): the value of appState.userPoints after it
PointsSummary_checkDailyReset(points, day) ==
    IF points = {} THEN points
    ELSE LET storedDate == (CHOOSE x \in points : TRUE).date
             resetPoints == [date |-> {day},
                             total_points |-> Undefined, totalPoints |-> Num(0),
                             actions_completed |-> Undefined, actionsCompleted |-> Num(0),
                             vape_points |-> Undefined, vapePoints |-> Num(0),
                             smoke_points |-> Undefined, smokePoints |-> Num(0),
                             actions |-> {<<>>}]
         IN  IF storedDate # {day} THEN {convertPoints(resetPoints)} ELSE points

Views == {"report", "map", "community"}

\* NavigationBar.navItems, and validViews of handleViewChange and setCurrentView
NavViews == {"report", "actions", "heatmap", "community", "mypoints"}

\* the zones and the events appState can hold
HeldZoneIds == {"zone_0_0"}
HeldEventIds == {"event_1"}

\* no call of resetAllData or seedDemoData under way
NoTask == [reset |-> "idle", seed |-> "idle"]

\* what an earlier session left in localStorage: nothing, or the view it
\* was on, the zones and events it held and the points of its day
StoredPoints ==
    {{}} \cup {{PointsOf({d}, l)} : d \in 0..1, l \in ActionLists(MaxActions)}
StoredZoneLists == {{}} \cup {{ids} : ids \in SUBSET HeldZoneIds}
StoredEventLists == {{}} \cup {{ids} : ids \in SUBSET HeldEventIds}
AppInit ==
    /\ today = 1
    /\ userPoints = {}
    /\ currentView = "report"
    /\ localStorage \in [zones : StoredZoneLists, userPoints : StoredPoints,
                         events : StoredEventLists, currentView : {"null"} \cup Views]
    /\ page = "closed"
    /\ lastHandler = "none"
    /\ navCurrentView = "null"
    /\ heldZones = {}
    /\ heldEvents = {}
    /\ task = NoTask

\* NavigationBar.setCurrentView(view): the value of this.currentView after it
NavigationBar_setCurrentView(nav, view) ==
    IF view \notin NavViews THEN nav ELSE view

\* initializeApp(): loadStateFromStorage(), the components, renderCurrentView()
initializeApp ==
    /\ page = "closed"
    /\ page' = "running"
    /\ lastHandler' = "initializeApp"
    /\ LET zonesLoaded == IF localStorage.zones # {}
                          THEN CHOOSE ids \in localStorage.zones : TRUE
                          ELSE heldZones
           pointsData == localStorage.userPoints
           \* the stored points are parsed and checkDailyReset() is called,
           \* or initializeUserPoints() when there are none
           points == checkDailyReset(pointsData, today)
           \* initializeUserPoints() saves the state as it is by then: the
           \* events and the view are still the initial ones
           saved == IF points # pointsData
                    THEN saveStateToStorage(localStorage, zonesLoaded, points,
                                            heldEvents, currentView)
                    ELSE localStorage
       IN  /\ heldZones' = zonesLoaded
           /\ userPoints' = points
           /\ heldEvents' = IF saved.events # {}
                           THEN CHOOSE ids \in saved.events : TRUE
                           ELSE heldEvents
           /\ currentView' = IF saved.currentView # "null" THEN saved.currentView
                             ELSE currentView
           /\ localStorage' = saved
    \* initializeNavigationBar(): new NavigationBar({currentView: appState.currentView});
    \* renderCurrentView() then hands it the same view
    /\ navCurrentView' = NavigationBar_setCurrentView(currentView', currentView')
    /\ UNCHANGED <<today, task>>

\* the page is closed or reloaded: appState is built anew from its literal
PageClosed ==
    /\ page = "running"
    /\ page' = "closed"
    /\ userPoints' = {}
    /\ currentView' = "report"
    /\ lastHandler' = "none"
    /\ navCurrentView' = "null"
    /\ heldZones' = {}
    /\ heldEvents' = {}
    /\ task' = NoTask
    /\ UNCHANGED <<today, localStorage>>

\* updateView(view): the value of appState.currentView after it
updateView_currentView(view) ==
    IF view \notin Views THEN currentView ELSE view

\* updateView(view)
updateView(view) ==
    /\ page = "running"
    /\ lastHandler' = "updateView"
    /\ IF view \notin Views
       THEN UNCHANGED <<currentView, localStorage, navCurrentView>>
       ELSE /\ currentView' = view
            /\ localStorage' = saveStateToStorage(localStorage, heldZones, userPoints, heldEvents, view)
            \* renderCurrentView(): updateNavigationHighlight()
            /\ navCurrentView' = NavigationBar_setCurrentView(navCurrentView, view)
    /\ UNCHANGED <<today, userPoints, page, heldZones, heldEvents, task>>

\* updatePoints(points) with the points the API answers with
updatePoints(points) ==
    /\ page = "running"
    /\ lastHandler' = "updatePoints"
    /\ userPoints' = {convertPoints(points)}
    /\ localStorage' = saveStateToStorage(localStorage, heldZones, userPoints', heldEvents, currentView)
    /\ UNCHANGED <<today, currentView, page, navCurrentView, heldZones, heldEvents, task>>

\* setInterval(checkDailyReset, 60000): the timer fires
checkDailyResetTimer ==
    /\ page = "running"
    /\ lastHandler' = "checkDailyReset"
    /\ userPoints' = checkDailyReset(userPoints, today)
    /\ localStorage' = IF userPoints' # userPoints
                       THEN saveStateToStorage(localStorage, heldZones, userPoints', heldEvents, currentView)
                       ELSE localStorage
    /\ UNCHANGED <<today, currentView, page, navCurrentView, heldZones, heldEvents, task>>

\* PointsSummary.checkDailyReset() is called
PointsSummary_checkDailyResetCalled ==
    /\ page = "running"
    /\ lastHandler' = "PointsSummary.checkDailyReset"
    /\ userPoints' = PointsSummary_checkDailyReset(userPoints, today)
    /\ localStorage' = IF userPoints' # userPoints
                       THEN saveStateToStorage(localStorage, heldZones, userPoints', heldEvents, currentView)
                       ELSE localStorage
    /\ UNCHANGED <<today, currentView, page, navCurrentView, heldZones, heldEvents, task>>

\* midnight (UTC) passes
Midnight ==
    /\ today < MaxDays
    /\ today' = today + 1
    /\ lastHandler' = "none"
    /\ UNCHANGED <<userPoints, currentView, localStorage, page,
                   navCurrentView, heldZones, heldEvents, task>>

\* NavigationBar.handleViewChange(view): the item of view is clicked
NavigationBar_handleViewChange(view) ==
    /\ page = "running"
    /\ lastHandler' = "NavigationBar.handleViewChange"
    /\ IF view \notin NavViews \/ view = navCurrentView
       THEN UNCHANGED <<navCurrentView, currentView, localStorage>>
       ELSE \* this.currentView = view, then onViewChange(view): updateView(view)
            /\ currentView' = updateView_currentView(view)
            /\ localStorage' =
                   IF view \in Views
                   THEN saveStateToStorage(localStorage, heldZones, userPoints,
                                           heldEvents, view)
                   ELSE localStorage
            /\ navCurrentView' =
                   IF view \in Views
                   THEN NavigationBar_setCurrentView(view, currentView')
                   ELSE view
    /\ UNCHANGED <<today, userPoints, page, heldZones, heldEvents, task>>

\* resetAllData() up to its fetch of POST /api/reset; one call at a time
resetAllData ==
    /\ page = "running"
    /\ task.reset = "idle"
    /\ task' = [task EXCEPT !.reset = "reset"]
    /\ lastHandler' = "resetAllData"
    /\ UNCHANGED <<today, userPoints, currentView, localStorage, page,
                   navCurrentView, heldZones, heldEvents>>

\* Mutant: the local state is cleared whatever the response is.
resetAllData_response_clearsAnyway(outcome) ==
    /\ page = "running"
    /\ task.reset = "reset"
    /\ lastHandler' = "resetAllData"
    /\ heldZones' = {}
    /\ userPoints' = {freshUserPoints(today)}
    /\ heldEvents' = {}
    /\ currentView' = "report"
    /\ localStorage' = saveStateToStorage(localStorage, heldZones', userPoints',
                                          heldEvents', currentView')
    /\ task' = [task EXCEPT !.reset = IF outcome = "ok" THEN "zones" ELSE "idle"]
    /\ UNCHANGED <<today, page, navCurrentView>>

\* resetAllData() from the response of POST /api/reset up to the first fetch
\* of refreshAllViews(): clearAllData() when the response is OK, the catch
\* block when it is not or when fetch threw
resetAllData_response(outcome) ==
    /\ page = "running"
    /\ task.reset = "reset"
    /\ lastHandler' = "resetAllData"
    /\ IF outcome = "ok"
       THEN /\ heldZones' = {}
            /\ userPoints' = {freshUserPoints(today)}
            /\ heldEvents' = {}
            /\ currentView' = "report"
            /\ localStorage' = saveStateToStorage(localStorage, heldZones', userPoints',
                                                  heldEvents', currentView')
            /\ task' = [task EXCEPT !.reset = "zones"]
       ELSE /\ task' = [task EXCEPT !.reset = "idle"]
            /\ UNCHANGED <<heldZones, userPoints, heldEvents, currentView, localStorage>>
    /\ UNCHANGED <<today, page, navCurrentView>>

\* seedDemoData() up to navigator.geolocation.getCurrentPosition; one call at a time
seedDemoData ==
    /\ page = "running"
    /\ task.seed = "idle"
    /\ task' = [task EXCEPT !.seed = "position"]
    /\ lastHandler' = "seedDemoData"
    /\ UNCHANGED <<today, userPoints, currentView, localStorage, page,
                   navCurrentView, heldZones, heldEvents>>

\* seedDemoData() from the position, or the refusal of it, up to its fetch
\* of POST /api/seed-demo
seedDemoData_located ==
    /\ page = "running"
    /\ task.seed = "position"
    /\ task' = [task EXCEPT !.seed = "seed"]
    /\ lastHandler' = "seedDemoData"
    /\ UNCHANGED <<today, userPoints, currentView, localStorage, page,
                   navCurrentView, heldZones, heldEvents>>

\* seedDemoData() from the response of POST /api/seed-demo up to the first
\* fetch of refreshAllViews(), or through its catch block
seedDemoData_response(outcome) ==
    /\ page = "running"
    /\ task.seed = "seed"
    /\ task' = [task EXCEPT !.seed = IF outcome = "ok" THEN "zones" ELSE "idle"]
    /\ lastHandler' = "seedDemoData"
    /\ UNCHANGED <<today, userPoints, currentView, localStorage, page,
                   navCurrentView, heldZones, heldEvents>>

\* the view resetAllData and seedDemoData call updateView with once
\* refreshAllViews() has returned
viewAfterRefresh(t) == IF t = "reset" THEN "report" ELSE "heatmap"

\* refreshAllViews() called by t, from the response of one of its three
\* fetches to the next fetch; after the last response, or when fetch threw,
\* it returns and t calls updateView
refreshAllViews_response(t, outcome, zoneIds, points, eventIds) ==
    /\ page = "running"
    /\ task[t] \in {"zones", "points", "events"}
    /\ lastHandler' = IF t = "reset" THEN "resetAllData" ELSE "seedDemoData"
    /\ heldZones' = IF task[t] = "zones" /\ outcome = "ok" THEN zoneIds ELSE heldZones
    /\ userPoints' = IF task[t] = "points" /\ outcome = "ok"
                     THEN {convertPoints(points)} ELSE userPoints
    /\ heldEvents' = IF task[t] = "events" /\ outcome = "ok" THEN eventIds ELSE heldEvents
    /\ LET returns == outcome = "failed" \/ task[t] = "events"
           view == viewAfterRefresh(t)
       IN  /\ task' = [task EXCEPT ![t] = IF returns THEN "idle"
                                          ELSE IF task[t] = "zones" THEN "points"
                                          ELSE "events"]
           /\ currentView' = IF returns THEN updateView_currentView(view) ELSE currentView
           /\ navCurrentView' =
                  IF returns /\ view \in Views
                  THEN NavigationBar_setCurrentView(navCurrentView, view)
                  ELSE navCurrentView
           /\ localStorage' =
                  IF outcome = "ok" \/ (returns /\ view \in Views)
                  THEN saveStateToStorage(localStorage, heldZones', userPoints',
                                          heldEvents', currentView')
                  ELSE localStorage
    /\ UNCHANGED <<today, page>>

\* the application not loaded: the application part at rest
AppIdle ==
    /\ today = 1
    /\ userPoints = {}
    /\ currentView = "report"
    /\ localStorage = [zones |-> {}, userPoints |-> {}, events |-> {},
                       currentView |-> "null"]
    /\ page = "closed"
    /\ lastHandler = "none"
    /\ navCurrentView = "null"
    /\ heldZones = {}
    /\ heldEvents = {}
    /\ task = NoTask

-----------------------------------------------------------------------------
(* RestorationActionCard *)

\* the card as init() leaves it: constructed with or without a zone id,
\* for a report of one type
CardStart(zoneId, reportType) ==
    [zoneId |-> zoneId, reportType |-> reportType,
     isProcessing |-> FALSE, inFlight |-> 0,
     shown |-> "actions", error |-> FALSE, last |-> "init", outcome |-> "none"]

CardInit ==
    card \in {CardStart(zoneId, reportType) :
                  zoneId \in {{}, {"zone_0_0"}}, reportType \in {"vape", "smoke"}}

\* Mutant: the click is not turned away while a request is in flight.
RestorationActionCard_handleActionComplete_unguarded ==
    /\ card.shown = "actions"
    /\ card.inFlight < MaxPosts
    /\ IF card.zoneId = {}
       THEN card' = [card EXCEPT !.last = "click"]
       ELSE card' = [card EXCEPT !.isProcessing = TRUE,
                                 !.inFlight = card.inFlight + 1,
                                 !.last = "click"]

\* an action item is clicked: handleActionComplete(action) up to its fetch
RestorationActionCard_handleActionComplete ==
    /\ card.shown = "actions"
    /\ card.inFlight < MaxPosts
    /\ IF card.isProcessing \/ card.zoneId = {}
       THEN card' = [card EXCEPT !.last = "click"]
       ELSE card' = [card EXCEPT !.isProcessing = TRUE,
                                 !.inFlight = card.inFlight + 1,
                                 !.last = "click"]

\* handleActionComplete(action) from the response on: showFeedback and the
\* callback when it is OK, the catch block otherwise
RestorationActionCard_response(outcome) ==
    /\ card.inFlight > 0
    /\ IF outcome = "ok"
       THEN card' = [card EXCEPT !.inFlight = card.inFlight - 1,
                                 !.shown = "feedback",
                                 !.last = "response", !.outcome = outcome]
       ELSE card' = [card EXCEPT !.inFlight = card.inFlight - 1,
                                 !.isProcessing = FALSE,
                                 \* showError needs the header of the card
                                 !.error = (card.shown = "actions"),
                                 !.last = "response", !.outcome = outcome]

\* close(): the close button, or the timer showFeedback sets
RestorationActionCard_close ==
    /\ card.shown # "closed"
    /\ card' = [card EXCEPT !.shown = "closed", !.error = FALSE, !.last = "close"]

\* update(options): options.zoneId is undefined, null or a zone id,
\* options.reportType undefined or a type
RestorationActionCard_update(zoneOption, typeOption) ==
    /\ card' = [card EXCEPT !.zoneId = IF zoneOption = "undefined" THEN card.zoneId
                                       ELSE IF zoneOption = "null" THEN {}
                                       ELSE {zoneOption},
                            !.reportType = IF typeOption = "undefined"
                                           THEN card.reportType ELSE typeOption,
                            !.shown = "actions", !.error = FALSE, !.last = "update"]

-----------------------------------------------------------------------------
(* ReportForm *)

\* the form as init() leaves it, the position not yet delivered
FormStart ==
    [selectedType |-> "null", selectedContext |-> "null", currentLocation |-> FALSE,
     isSubmitting |-> FALSE, inFlight |-> <<>>, disabled |-> TRUE,
     buttonText |-> "Submit Report", last |-> "init", sent |-> FALSE,
     outcome |-> "none"]

FormInit == form = FormStart

\* updateSubmitButtonState(): whether the submit button is disabled after it
ReportForm_updateSubmitButtonState(f) ==
    ~(f.selectedType # "null" /\ f.currentLocation)

\* handleTypeSelection(type)
ReportForm_handleTypeSelection(type) ==
    IF type # "smoke" /\ type # "vape"
    THEN form' = [form EXCEPT !.last = "handleTypeSelection"]
    ELSE LET f == [form EXCEPT !.selectedType = type, !.last = "handleTypeSelection"]
         IN  form' = [f EXCEPT !.disabled = ReportForm_updateSubmitButtonState(f)]

\* handleContextSelection(context): the context selected is deselected
ReportForm_handleContextSelection(context) ==
    form' = [form EXCEPT !.selectedContext = IF form.selectedContext = context
                                             THEN "null" ELSE context,
                         !.last = "handleContextSelection"]

\* requestLocationPermission(): the position is delivered
ReportForm_locationGranted ==
    LET f == [form EXCEPT !.currentLocation = TRUE, !.last = "location"]
    IN  form' = [f EXCEPT !.disabled = ReportForm_updateSubmitButtonState(f)]

\* handleLocationError(message)
ReportForm_handleLocationError ==
    LET f == [form EXCEPT !.currentLocation = FALSE, !.last = "locationError"]
    IN  form' = [f EXCEPT !.disabled = ReportForm_updateSubmitButtonState(f)]

\* Mutant: a submission under way does not turn the call away.
ReportForm_handleSubmit_unguarded ==
    /\ Len(form.inFlight) < MaxPosts
    /\ IF form.selectedType = "null"
       THEN form' = [form EXCEPT !.last = "handleSubmit", !.sent = FALSE]
       ELSE IF ~form.currentLocation
       THEN form' = [form EXCEPT !.disabled = TRUE,
                                 !.last = "handleSubmit", !.sent = FALSE]
       ELSE form' = [form EXCEPT
                !.isSubmitting = TRUE, !.disabled = TRUE,
                !.buttonText = "Submitting...",
                !.inFlight = Append(form.inFlight,
                                    [type |-> form.selectedType,
                                     context |-> form.selectedContext,
                                     location |-> form.currentLocation]),
                !.last = "handleSubmit", !.sent = TRUE]

\* handleSubmit() up to its fetch
ReportForm_handleSubmit ==
    /\ Len(form.inFlight) < MaxPosts
    /\ IF form.selectedType = "null"
       THEN form' = [form EXCEPT !.last = "handleSubmit", !.sent = FALSE]
       ELSE IF ~form.currentLocation
       THEN \* handleLocationError('Location is required to submit a report')
            form' = [form EXCEPT !.disabled = TRUE,
                                 !.last = "handleSubmit", !.sent = FALSE]
       ELSE IF form.isSubmitting
       THEN form' = [form EXCEPT !.last = "handleSubmit", !.sent = FALSE]
       ELSE form' = [form EXCEPT
                !.isSubmitting = TRUE, !.disabled = TRUE,
                !.buttonText = "Submitting...",
                !.inFlight = Append(form.inFlight,
                                    [type |-> form.selectedType,
                                     context |-> form.selectedContext,
                                     location |-> form.currentLocation]),
                !.last = "handleSubmit", !.sent = TRUE]

\* handleSubmit() from the response on: onSubmit and resetForm() when it is
\* OK, the catch block otherwise, the finally block in both cases
ReportForm_response(outcome) ==
    /\ form.inFlight # <<>>
    /\ IF outcome = "ok"
       THEN LET f == [form EXCEPT !.selectedType = "null", !.selectedContext = "null"]
            IN  form' = [f EXCEPT !.inFlight = Tail(form.inFlight),
                                  !.buttonText = "Submit Report",
                                  !.disabled = ReportForm_updateSubmitButtonState(f),
                                  !.isSubmitting = FALSE,
                                  !.last = "response", !.outcome = outcome]
       ELSE form' = [form EXCEPT !.inFlight = Tail(form.inFlight),
                                 !.buttonText = "Submit Report",
                                 !.disabled = FALSE,
                                 !.isSubmitting = FALSE,
                                 !.last = "response", !.outcome = outcome]

-----------------------------------------------------------------------------
(* ReportFlow *)

\* the flow as init() leaves it, the position not yet delivered; the action
\* cards of step 2 are those of this.suggestions, which the API never
\* leaves empty
FlowStart ==
    [selectedType |-> "null", selectedContext |-> "null", currentLocation |-> FALSE,
     step |-> 1,
     reports |-> <<>>,        \* the types of the POST /api/reports in flight
     actions |-> 0,           \* the POST /api/actions in flight
     timers |-> 0,            \* the setTimeout(() => this.resetFlow(), 1500) pending
     loggedType |-> "null",   \* the type of the report whose response set step 2
     sentType |-> "none",     \* the type in the body of the last POST /api/actions
     sentForReport |-> 0]     \* the POST /api/actions sent since that response

FlowInit == flow = FlowStart

\* resetFlow(): the fields after it
ReportFlow_resetFlow(f) ==
    [f EXCEPT !.selectedType = "null", !.selectedContext = "null", !.step = 1]

\* requestLocation(): the position is delivered, currentZoneId is computed
ReportFlow_located ==
    /\ ~flow.currentLocation
    /\ flow' = [flow EXCEPT !.currentLocation = TRUE]

\* a type chip of step 1 is clicked
ReportFlow_typeClicked(type) ==
    /\ flow.step = 1
    /\ flow' = [flow EXCEPT !.selectedType = type]

\* a context chip of step 1 is clicked: the context selected is deselected
ReportFlow_contextClicked(context) ==
    /\ flow.step = 1
    /\ flow' = [flow EXCEPT !.selectedContext = IF flow.selectedContext = context
                                                THEN "null" ELSE context]

\* the log button of step 1 is clicked: handleLogImpact() up to its fetch
ReportFlow_handleLogImpact ==
    /\ flow.step = 1
    /\ ~(flow.selectedType = "null" \/ ~flow.currentLocation)
    /\ Len(flow.reports) < MaxPosts
    /\ flow' = [flow EXCEPT !.reports = Append(flow.reports, flow.selectedType)]

\* handleLogImpact() from the response on: step 2 is rendered when it is OK
ReportFlow_reportResponse(i, outcome) ==
    /\ i \in 1..Len(flow.reports)
    /\ IF outcome = "ok"
       THEN flow' = [flow EXCEPT !.reports = RemoveAt(flow.reports, i),
                                 !.step = 2,
                                 !.loggedType = flow.reports[i],
                                 !.sentForReport = 0]
       ELSE flow' = [flow EXCEPT !.reports = RemoveAt(flow.reports, i)]

\* an action card of step 2 is clicked: handleActionComplete(action) up to
\* its fetch
ReportFlow_handleActionComplete ==
    /\ flow.step = 2
    /\ flow.actions < MaxPosts
    /\ flow.sentForReport < MaxPosts
    /\ flow' = [flow EXCEPT !.actions = flow.actions + 1,
                            !.sentType = flow.selectedType,
                            !.sentForReport = flow.sentForReport + 1]

\* handleActionComplete(action) from the response on: resetFlow() is
\* scheduled when it is OK
ReportFlow_actionResponse(outcome) ==
    /\ flow.actions > 0
    /\ flow.timers < MaxPosts
    /\ flow' = [flow EXCEPT !.actions = flow.actions - 1,
                            !.timers = IF outcome = "ok" THEN flow.timers + 1
                                       ELSE flow.timers]

\* a scheduled resetFlow() runs
ReportFlow_resetTimer ==
    /\ flow.timers > 0
    /\ flow' = [ReportFlow_resetFlow(flow) EXCEPT !.timers = flow.timers - 1]

\* 'Log another' of step 2 is clicked: resetFlow()
ReportFlow_newReportClicked ==
    /\ flow.step = 2
    /\ flow' = ReportFlow_resetFlow(flow)

\* no card, form or flow in use: the report part at rest
ReportIdle ==
    /\ card = CardStart({}, "vape")
    /\ form = FormStart
    /\ flow = FlowStart

-----------------------------------------------------------------------------
(* The specifications *)

Init == ZoneInit /\ GeoIdle /\ TapIdle /\ ToggleIdle /\ SheetsIdle /\ AppIdle /\ ReportIdle

Next ==
    \/ \E type \in {"vape", "smoke"}, points \in 1..MaxPoints :
           ReportLogged(type, points) /\ UNCHANGED restOfZone
    \/ \E type \in {"vape", "smoke"}, points \in 1..MaxPoints :
           ActionCompleted(type, points) /\ UNCHANGED restOfZone
    \/ \E type \in MapTypeValues : RenderZone(type) /\ UNCHANGED restOfZone

Spec == Init /\ [][Next]_vars

\* no zone displayed: the zone part at rest while fixes are taken
ZoneIdle ==
    /\ zone = EmptyZone
    /\ pointsAdded = 0
    /\ mapType = "vape"
    /\ state = HeatmapView_calculateState(zone, mapType)
    /\ actualState = ZoneInspector_calculateState(zone, mapType)
    /\ progressInfo = ZoneInspector_calculateProgressInfo(zone, mapType, actualState)

InitGeo == GeoInit /\ ZoneIdle /\ TapIdle /\ ToggleIdle /\ SheetsIdle /\ AppIdle /\ ReportIdle

NextGeo ==
    \/ HeatmapView_addUserLocationMarker /\ UNCHANGED restOfGeo
    \/ ActionsView_getUserLocation /\ UNCHANGED restOfGeo
    \/ ReportFlow_requestLocation /\ UNCHANGED restOfGeo

SpecGeo == InitGeo /\ [][NextGeo]_vars

InitTap == TapInit /\ ZoneIdle /\ GeoIdle /\ ToggleIdle /\ SheetsIdle /\ AppIdle /\ ReportIdle

NextTap ==
    \/ ServerZoneChanges /\ UNCHANGED restOfTap
    \/ HeatmapView_renderZone /\ UNCHANGED restOfTap
    \/ HeatmapView_handleZoneTap /\ UNCHANGED restOfTap
    \/ HeatmapView_userZoneClicked /\ UNCHANGED restOfTap
    \/ \E outcome \in FetchOutcomes :
           ZoneInspector_show(outcome) /\ UNCHANGED restOfTap

SpecTap == InitTap /\ [][NextTap]_vars

InitToggle == ToggleInit /\ ZoneIdle /\ GeoIdle /\ SheetsIdle /\ AppIdle /\ ReportIdle

NextToggle ==
    \/ ServerZoneChanges /\ UNCHANGED restOfTap
    \/ \E type \in MapTypes :
           HeatmapView_handleMapTypeToggle(type) /\ UNCHANGED restOfToggle
    \/ \E i \in 1..MaxInFlight, outcome \in FetchOutcomes :
           HeatmapView_toggleResponse(i, outcome) /\ UNCHANGED restOfToggle
    \/ HeatmapView_update /\ UNCHANGED restOfToggle
    \/ \E i \in 1..MaxInFlight, outcome \in FetchOutcomes :
           HeatmapView_updateResponse(i, outcome) /\ UNCHANGED restOfToggle

SpecToggle == InitToggle /\ [][NextToggle]_vars

InitSheets == SheetsInit /\ ZoneIdle /\ GeoIdle /\ TapIdle /\ ToggleIdle /\ AppIdle /\ ReportIdle

NextSheets ==
    \/ \E sheetId \in OpenIds :
           BottomSheetManager_open(sheetId) /\ UNCHANGED restOfSheets
    \/ BottomSheetManager_closeAll /\ UNCHANGED restOfSheets

SpecSheets == InitSheets /\ [][NextSheets]_vars

InitApp == AppInit /\ ZoneIdle /\ GeoIdle /\ TapIdle /\ ToggleIdle /\ SheetsIdle /\ ReportIdle

NextApp ==
    \/ initializeApp /\ UNCHANGED restOfApp
    \/ PageClosed /\ UNCHANGED restOfApp
    \/ \E view \in Views \cup {"heatmap"} : updateView(view) /\ UNCHANGED restOfApp
    \/ \E d \in {today - 1, today}, l \in ActionLists(MaxActions) :
           updatePoints(ApiPointsOf({d}, l)) /\ UNCHANGED restOfApp
    \/ checkDailyResetTimer /\ UNCHANGED restOfApp
    \/ PointsSummary_checkDailyResetCalled /\ UNCHANGED restOfApp
    \/ Midnight /\ UNCHANGED restOfApp

SpecApp == InitApp /\ [][NextApp]_vars

\* the navigation bar, resetAllData and seedDemoData, on one day
NextNav ==
    \/ initializeApp /\ UNCHANGED restOfApp
    \/ PageClosed /\ UNCHANGED restOfApp
    \/ \E view \in NavViews :
           NavigationBar_handleViewChange(view) /\ UNCHANGED restOfApp
    \/ \E l \in ActionLists(MaxActions) :
           updatePoints(ApiPointsOf({today}, l)) /\ UNCHANGED restOfApp
    \/ resetAllData /\ UNCHANGED restOfApp
    \/ \E outcome \in FetchOutcomes :
           resetAllData_response(outcome) /\ UNCHANGED restOfApp
    \/ seedDemoData /\ UNCHANGED restOfApp
    \/ seedDemoData_located /\ UNCHANGED restOfApp
    \/ \E outcome \in FetchOutcomes :
           seedDemoData_response(outcome) /\ UNCHANGED restOfApp
    \/ \E t \in {"reset", "seed"}, outcome \in FetchOutcomes,
          zoneIds \in SUBSET HeldZoneIds, l \in ActionLists(MaxActions),
          eventIds \in SUBSET HeldEventIds :
           refreshAllViews_response(t, outcome, zoneIds, ApiPointsOf({today}, l), eventIds)
           /\ UNCHANGED restOfApp

SpecNav == InitApp /\ [][NextNav]_vars

InitCard == CardInit /\ form = FormStart /\ flow = FlowStart
                     /\ ZoneIdle /\ GeoIdle /\ TapIdle /\ ToggleIdle /\ SheetsIdle /\ AppIdle

NextCard ==
    \/ RestorationActionCard_handleActionComplete /\ UNCHANGED restOfCard
    \/ \E outcome \in FetchOutcomes :
           RestorationActionCard_response(outcome) /\ UNCHANGED restOfCard
    \/ RestorationActionCard_close /\ UNCHANGED restOfCard
    \/ \E zoneOption \in {"undefined", "null", "zone_0_0"},
          typeOption \in {"undefined", "vape", "smoke"} :
           RestorationActionCard_update(zoneOption, typeOption) /\ UNCHANGED restOfCard

SpecCard == InitCard /\ [][NextCard]_vars

InitForm == FormInit /\ card = CardStart({}, "vape") /\ flow = FlowStart
                     /\ ZoneIdle /\ GeoIdle /\ TapIdle /\ ToggleIdle /\ SheetsIdle /\ AppIdle

NextForm ==
    \/ \E type \in {"smoke", "vape", "all"} :
           ReportForm_handleTypeSelection(type) /\ UNCHANGED restOfForm
    \/ \E context \in {"indoor", "outdoor"} :
           ReportForm_handleContextSelection(context) /\ UNCHANGED restOfForm
    \/ ReportForm_locationGranted /\ UNCHANGED restOfForm
    \/ ReportForm_handleLocationError /\ UNCHANGED restOfForm
    \/ ReportForm_handleSubmit /\ UNCHANGED restOfForm
    \/ \E outcome \in FetchOutcomes :
           ReportForm_response(outcome) /\ UNCHANGED restOfForm

SpecForm == InitForm /\ [][NextForm]_vars

InitFlow == FlowInit /\ card = CardStart({}, "vape") /\ form = FormStart
                     /\ ZoneIdle /\ GeoIdle /\ TapIdle /\ ToggleIdle /\ SheetsIdle /\ AppIdle

NextFlow ==
    \/ ReportFlow_located /\ UNCHANGED restOfFlow
    \/ \E type \in {"vape", "smoke"} :
           ReportFlow_typeClicked(type) /\ UNCHANGED restOfFlow
    \/ \E context \in {"indoor", "outdoor"} :
           ReportFlow_contextClicked(context) /\ UNCHANGED restOfFlow
    \/ ReportFlow_handleLogImpact /\ UNCHANGED restOfFlow
    \/ \E i \in 1..MaxPosts, outcome \in FetchOutcomes :
           ReportFlow_reportResponse(i, outcome) /\ UNCHANGED restOfFlow
    \/ ReportFlow_handleActionComplete /\ UNCHANGED restOfFlow
    \/ \E outcome \in FetchOutcomes :
           ReportFlow_actionResponse(outcome) /\ UNCHANGED restOfFlow
    \/ ReportFlow_resetTimer /\ UNCHANGED restOfFlow
    \/ ReportFlow_newReportClicked /\ UNCHANGED restOfFlow

SpecFlow == InitFlow /\ [][NextFlow]_vars

-----------------------------------------------------------------------------
(* What the claims speak of *)

\* the value zone z holds for score f: the property's number, 0 when the
\* property is left out under both spellings
held(z, f) ==
    IF z[f] # Undefined THEN Val(z[f])
    ELSE IF z[camelCase(f)] # Undefined THEN Val(z[camelCase(f)])
    ELSE 0

\* restore - debt of the pair a view mode selects
netOf(z, mode) ==
    CASE mode = "vape" -> held(z, "vape_restore") - held(z, "vape_debt")
      [] mode = "smoke" -> held(z, "smoke_restore") - held(z, "smoke_debt")
      [] mode = "all" ->
            (held(z, "vape_restore") + held(z, "smoke_restore"))
                - (held(z, "vape_debt") + held(z, "smoke_debt"))

\* the threshold rule of the specification
stateOfNet(net) ==
    IF net > 20 THEN "recovered"
    ELSE IF net > -20 THEN "healing"
    ELSE "needs_restoration"

\* needs_restoration < healing < recovered
rank(s) ==
    CASE s = "needs_restoration" -> 0
      [] s = "healing" -> 1
      [] s = "recovered" -> 2

\* the zone object {vapeDebt: vd, vapeRestore: vr, smokeDebt: sd, smokeRestore: sr}
zoneOf(vd, vr, sd, sr) ==
    [EmptyZone EXCEPT !.vapeDebt = Num(vd), !.vapeRestore = Num(vr),
                      !.smokeDebt = Num(sd), !.smokeRestore = Num(sr)]

\* C1: for every zone and view mode, with net = restore - debt of the
\* selected pair, both copies of calculateState return 'recovered' iff
\* net > 20, 'healing' iff -20 < net <= 20 and 'needs_restoration' iff
\* net <= -20.
C1_ThresholdsStrict ==
    mapType \in MapTypes =>
        LET net == netOf(zone, mapType)
        IN  \A s \in {state, actualState} :
                /\ (s = "recovered") <=> (net > 20)
                /\ (s = "healing") <=> (-20 < net /\ net <= 20)
                /\ (s = "needs_restoration") <=> (net <= -20)

\* C1 witness: a zone at net 21 is drawn as recovered, one at net -20 would
\* not be; here the upper boundary has just been crossed.
C1_Witness ==
    /\ mapType \in MapTypes
    /\ netOf(zone, mapType) = 21
    /\ pointsAdded > 0
    /\ state = "recovered"
    /\ actualState = "recovered"

\* C2: in view mode 'all' the zone is classified by the combined net
\* (vapeRestore + smokeRestore) - (vapeDebt + smokeDebt); vapeDebt 5,
\* vapeRestore 30, smokeDebt 5, smokeRestore 0 is healing.
C2_AllModeCombines ==
    /\ mapType = "all" =>
           state = stateOfNet((held(zone, "vape_restore") + held(zone, "smoke_restore"))
                                  - (held(zone, "vape_debt") + held(zone, "smoke_debt")))
    /\ HeatmapView_calculateState(zoneOf(5, 30, 5, 0), "all") = "healing"

\* C2 witness: all four scores count; neither pair alone is past the
\* threshold, the combined net is 21 and the zone is drawn as recovered.
C2_Witness ==
    /\ mapType = "all"
    /\ held(zone, "vape_debt") > 0 /\ held(zone, "smoke_debt") > 0
    /\ held(zone, "vape_restore") > 0 /\ held(zone, "smoke_restore") > 0
    /\ netOf(zone, "vape") <= 20 /\ netOf(zone, "smoke") <= 20
    /\ netOf(zone, "all") = 21
    /\ state = "recovered"

\* the zone z with its smoke (or vape) scores replaced by debt d and restore
\* r, in the spelling of the zone
withScores(z, type, d, r) ==
    LET camel == usesCamelCase(z)
    IN  [z EXCEPT ![type \o "_debt"] = IF camel THEN Undefined ELSE d,
                  ![type \o "_restore"] = IF camel THEN Undefined ELSE r,
                  ![camelCase(type \o "_debt")] = IF camel THEN d ELSE Undefined,
                  ![camelCase(type \o "_restore")] = IF camel THEN r ELSE Undefined]

\* C3: in view mode 'vape' the state does not depend on the smoke fields:
\* every zone that agrees with the displayed one on the vape pair gets the
\* same state from both copies; symmetrically for 'smoke' and the vape
\* fields.
C3_OtherPairIgnored ==
    /\ mapType = "vape" =>
           \A d \in StoredScores, r \in StoredScores :
               LET other == withScores(zone, "smoke", d, r)
               IN  /\ HeatmapView_calculateState(other, "vape") = state
                   /\ ZoneInspector_calculateState(other, "vape") = actualState
    /\ mapType = "smoke" =>
           \A d \in StoredScores, r \in StoredScores :
               LET other == withScores(zone, "vape", d, r)
               IN  /\ HeatmapView_calculateState(other, "smoke") = state
                   /\ ZoneInspector_calculateState(other, "smoke") = actualState

\* C3 witness: a zone shown in vape mode as recovered whose smoke pair alone
\* would make it need restoration.
C3_Witness ==
    /\ mapType = "vape"
    /\ state = "recovered"
    /\ netOf(zone, "smoke") <= -20
    /\ netOf(zone, "all") <= 20

\* C4: a view mode that is none of 'vape', 'smoke', 'all' (an undefined one
\* included) gives the state of view mode 'vape', and a state, not an error.
C4_UnknownModeIsVape ==
    mapType \notin MapTypes =>
        /\ state = HeatmapView_calculateState(zone, "vape")
        /\ actualState = ZoneInspector_calculateState(zone, "vape")
        /\ state \in States /\ actualState \in States

\* C4 witness: no map type was passed, and the state shown is the vape
\* state, which differs from the smoke state and from the combined one.
C4_Witness ==
    /\ mapType = "undefined"
    /\ state = stateOfNet(netOf(zone, "vape"))
    /\ state # stateOfNet(netOf(zone, "smoke"))
    /\ state # stateOfNet(netOf(zone, "all"))

\* the scores zone z leaves out under both spellings
leftOut(z) == {f \in ScoreNames : z[f] = Undefined /\ z[camelCase(f)] = Undefined}

\* zone z with the left-out scores of set S set to 0
zeroFilled(z, S) ==
    [p \in PropertyNames |->
        IF \E f \in S : p = propertyOf(z, f) THEN Num(0) ELSE z[p]]

\* C5: a zone that leaves out any subset of the four scores is classified,
\* in every view mode, as the same zone with those scores set to 0; a zone
\* with no score at all is healing.
C5_MissingIsZero ==
    /\ \A S \in SUBSET leftOut(zone) :
           state = HeatmapView_calculateState(zeroFilled(zone, S), mapType)
    /\ zone = EmptyZone => state = "healing"

\* C5 witness: the debt of the selected pair is left out and the restore
\* score is present; the zone is recovered, as with a debt of 0.
C5_Witness ==
    /\ mapType = "smoke"
    /\ "smoke_debt" \in leftOut(zone)
    /\ "smoke_restore" \notin leftOut(zone)
    /\ state = "recovered"

\* C6: calculateState is total: whatever scores the zone leaves out and
\* whatever the view mode, the result is one of the three states.
C6_Total == state \in States

\* C6 witness: a zone without any score classified without a map type.
C6_Witness ==
    /\ zone = EmptyZone
    /\ mapType = "undefined"
    /\ state \in States

\* the raises of a score looked at: a few points, or whole reports' worth
RaiseAmounts == (1..MaxPoints) \cup {DEBT_INCREMENT * k : k \in 1..MaxJumps}

\* C7: with the view mode fixed, raising a restore score never yields a
\* worse state and raising a debt score never yields a better one.
C7_Monotone ==
    \A type \in {"vape", "smoke"}, amount \in RaiseAmounts :
        /\ rank(HeatmapView_calculateState(addPoints(zone, type \o "_restore", amount), mapType))
               >= rank(state)
        /\ rank(HeatmapView_calculateState(addPoints(zone, type \o "_debt", amount), mapType))
               <= rank(state)

\* C7 witness: a healing zone that one raise of its restore score makes
\* recovered and the same raise of its debt makes need restoration.
C7_Witness ==
    /\ mapType = "all"
    /\ state = "healing"
    /\ \E amount \in RaiseAmounts :
           /\ HeatmapView_calculateState(addPoints(zone, "smoke_restore", amount), mapType)
                  = "recovered"
           /\ HeatmapView_calculateState(addPoints(zone, "vape_debt", amount), mapType)
                  = "needs_restoration"

\* C8: for a zone at net score net in the chosen view mode,
\* calculateProgressInfo reports, with currentState 'needs_restoration',
\* toHealing = max(0, -20 - net + 1) and toRecovered = max(0, 20 - net + 1);
\* with 'healing' only toRecovered = max(0, 20 - net + 1); with 'recovered'
\* neither figure.  Net -25 gives 6 and 46.
C8_PointsToNextState ==
    /\ mapType \in MapTypes =>
           LET net == netOf(zone, mapType)
               max0(n) == IF n > 0 THEN n ELSE 0
               info(s) == ZoneInspector_calculateProgressInfo(zone, mapType, s)
           IN  /\ info("needs_restoration").toHealing = {max0(-20 - net + 1)}
               /\ info("needs_restoration").toRecovered = {max0(20 - net + 1)}
               /\ info("healing").toHealing = {}
               /\ info("healing").toRecovered = {max0(20 - net + 1)}
               /\ info("recovered").toHealing = {}
               /\ info("recovered").toRecovered = {}
               /\ progressInfo.toHealing = info(actualState).toHealing
               /\ progressInfo.toRecovered = info(actualState).toRecovered
    /\ LET info == ZoneInspector_calculateProgressInfo(zoneOf(25, 0, 0, 0), "vape",
                                                        "needs_restoration")
       IN  info.toHealing = {6} /\ info.toRecovered = {46}

\* C8 witness: a zone at net -22 that needs restoration is told 3 points to
\* healing and 43 to recovered.
C8_Witness ==
    /\ mapType \in MapTypes
    /\ netOf(zone, mapType) = -22
    /\ actualState = "needs_restoration"
    /\ progressInfo.toHealing = {3}
    /\ progressInfo.toRecovered = {43}

\* the restore scores a map type selects ('vape' when it is not recognised)
selectedRestore(type) ==
    IF type = "smoke" THEN {"smoke_restore"}
    ELSE IF type = "all" THEN {"vape_restore", "smoke_restore"}
    ELSE {"vape_restore"}

\* C9: with currentState = calculateState(zone, mode), raising the selected
\* restore score by toHealing (toRecovered) makes calculateState return at
\* least 'healing' ('recovered'), and raising it by one point less does not.
C9_DeltasMinimal ==
    \A f \in selectedRestore(mapType) :
        LET after(n) == ZoneInspector_calculateState(addPoints(zone, f, n), mapType)
        IN  /\ progressInfo.toHealing # {} =>
                LET n == Val(progressInfo.toHealing)
                IN  /\ rank(after(n)) >= rank("healing")
                    /\ n >= 1
                    /\ rank(after(n - 1)) < rank("healing")
            /\ progressInfo.toRecovered # {} =>
                LET n == Val(progressInfo.toRecovered)
                IN  /\ after(n) = "recovered"
                    /\ n >= 1
                    /\ rank(after(n - 1)) < rank("recovered")

\* C9 witness: in the combined view a zone that needs restoration is one
\* point short of healing and 41 short of recovered.
C9_Witness ==
    /\ mapType = "all"
    /\ actualState = "needs_restoration"
    /\ progressInfo.toHealing = {1}
    /\ progressInfo.toRecovered = {41}
    /\ ZoneInspector_calculateState(addPoints(zone, "smoke_restore", 1), mapType) = "healing"

cellOf(x) == x \div 100

\* C11: two coordinates get the same grid index, and so the same zone
\* identifier, iff they lie in the same half-open cell
\* [k * 0.01, (k + 1) * 0.01), on both sides of zero, and the index is
\* non-decreasing in the coordinate.
C11_HalfOpenCells ==
    heatmapZoneId # "null" =>
        /\ \A lat \in Latitudes :
               /\ (HeatmapView_calculateZoneId(lat, position.longitude) = heatmapZoneId)
                      <=> (cellOf(lat) = cellOf(position.latitude))
               /\ lat <= position.latitude =>
                      MathFloorOfQuotient(lat, HeatmapView_ZONE_GRID_SIZE)
                          <= MathFloorOfQuotient(position.latitude, HeatmapView_ZONE_GRID_SIZE)
        /\ \A lng \in Longitudes :
               /\ (HeatmapView_calculateZoneId(position.latitude, lng) = heatmapZoneId)
                      <=> (cellOf(lng) = cellOf(position.longitude))
               /\ lng <= position.longitude =>
                      MathFloorOfQuotient(lng, HeatmapView_ZONE_GRID_SIZE)
                          <= MathFloorOfQuotient(position.longitude, HeatmapView_ZONE_GRID_SIZE)

\* the lookup table of the specification: state -> color and message
colorOf(s) ==
    CASE s = "needs_restoration" -> "#F4D03F"
      [] s = "healing" -> "#52BE80"
      [] s = "recovered" -> "#5DADE2"
messageOf(s) ==
    CASE s = "needs_restoration" -> "This space needs care"
      [] s = "healing" -> "This space is healing"
      [] s = "recovered" -> "This space has recovered"

\* C12: every state calculateState returns has its color and its message
\* in the table (needs_restoration: #F4D03F, 'This space needs care';
\* healing: #52BE80, 'This space is healing'; recovered: #5DADE2, 'This
\* space has recovered'), HeatmapView and ZoneInspector hold the same table,
\* and a rendered or tapped zone never gets an undefined color or message.
C12_LookupTable ==
    /\ \A o \in overlay :
           o.state \in States /\ o.color = colorOf(o.state)
    /\ \A info \in zoneInfo :
           info.state \in States /\ info.message = messageOf(info.state)
    /\ inspector.outcome = "rendered" =>
           /\ inspector.actualState \in States
           /\ inspector.message = messageOf(inspector.actualState)
           /\ inspector.stateColor = colorOf(inspector.actualState)
    /\ HeatmapView_stateColors = ZoneInspector_stateColors
    /\ HeatmapView_stateMessages = ZoneInspector_stateMessages
    /\ DOMAIN HeatmapView_stateColors = States
    /\ DOMAIN HeatmapView_stateMessages = States

\* C12 witness: a zone drawn in the color of 'needs_restoration' and tapped,
\* while the inspector, from newer data, shows the message of 'recovered'.
C12_Witness ==
    /\ \E o \in overlay : o.state = "needs_restoration" /\ o.color = "#F4D03F"
    /\ \E info \in zoneInfo : info.message = "This space needs care"
    /\ inspector.outcome = "rendered"
    /\ inspector.message = "This space has recovered"
    /\ inspector.stateColor = "#5DADE2"

\* C14: the state show displays is calculateState applied to the zone data
\* fetched when show ran and to zoneInfo.mapType, whatever state zoneInfo
\* carries from the time the overlay was drawn; nothing saved to
\* localStorage is a state.
C14_StateRecomputed ==
    /\ [](inspector.outcome = "rendered" /\ ~inspector.fetching =>
             \E info \in zoneInfo, z \in inspector.zoneData :
                 inspector.actualState = stateOfNet(netOf(z, info.mapType)))
    /\ [][inspector'.outcome = "rendered" /\ inspector.fetching /\ ~inspector'.fetching =>
             inspector'.zoneData \in {serverZone, {defaultZoneData}}]_vars
    /\ []("state" \notin SavedItems /\ \A z \in serverZone : "state" \notin savedZoneProperties(z))

\* C14 witness: the overlay was drawn as recovered and tapped, the zone was
\* reported on, and the inspector shows needs_restoration from the data it
\* fetched.
C14_Witness ==
    /\ inspector.outcome = "rendered" /\ ~inspector.fetching
    /\ \E info \in zoneInfo : info.state = "recovered"
    /\ \E o \in overlay : o.state = "recovered"
    /\ inspector.zoneData = serverZone
    /\ inspector.actualState = "needs_restoration"

\* C15: a later toggle cancels no zone fetch of handleMapTypeToggle, and the
\* response of such a fetch is drawn with the map type of its own call; so
\* when two toggles overlap and the earlier response arrives last, the
\* overlays are those of the earlier map type while getMapType() returns the
\* later one.
C15_StaleResponseApplied ==
    [][ /\ Len(inFlight') > Len(inFlight) =>
               SubSeq(inFlight', 1, Len(inFlight)) = inFlight
        /\ Len(inFlight') < Len(inFlight) =>
               \E i \in 1..Len(inFlight) :
                   /\ inFlight' = RemoveAt(inFlight, i)
                   /\ inFlight[i].by = "toggle" =>
                          \A o \in overlay' : o.mapType = inFlight[i].type ]_vars

\* C15 witness: every response has arrived, the map shows the overlays of
\* 'smoke' and getMapType() returns 'all'.
C15_Witness ==
    /\ inFlight = <<>>
    /\ heatmapMapType = "all"
    /\ \E o \in overlay : o.mapType = "smoke" /\ o.state = "needs_restoration"
    /\ HeatmapView_renderZones(serverZone, heatmapMapType) # overlay

\* the panels registered that are visible
visibleSheets == {id \in sheets : ~sheetHidden[id]}

\* C16: after any sequence of open(sheetId) and closeAll() calls, starting
\* with all sheets hidden, at most one registered sheet is visible, it is
\* the sheet of the most recent successful open, isOpen() is true iff a
\* sheet is visible, the overlay is visible iff a sheet is visible, and
\* open() with an unregistered id changes nothing.
C16_OneSheetAtATime ==
    /\ [](/\ Cardinality(visibleSheets) <= 1
          /\ visibleSheets = (IF currentSheet = "null" THEN {} ELSE {currentSheet})
          /\ BottomSheetManager_isOpen <=> visibleSheets # {}
          /\ ~overlayHidden <=> visibleSheets # {}
          /\ lastCall.op = "open" /\ lastCall.sheetId \in sheets =>
                 visibleSheets = {lastCall.sheetId}
          /\ lastCall.op = "closeAll" => visibleSheets = {})
    /\ [][lastCall'.op = "open" /\ lastCall'.sheetId \notin sheets =>
              UNCHANGED <<sheets, sheetHidden, overlayHidden, currentSheet>>]_vars

\* C16 witness: the points sheet was open, the zone sheet was opened over
\* it, and a call of open with an id of no sheet came last: only the zone
\* sheet is visible.
C16_Witness ==
    /\ {"points", "zone"} \subseteq sheets
    /\ lastCall = [op |-> "open", sheetId |-> "settings"]
    /\ currentSheet = "zone"
    /\ visibleSheets = {"zone"}
    /\ ~overlayHidden

\* the daily figures of a userPoints object are all zero
noPoints(p) ==
    /\ p.totalPoints = 0 /\ p.actionsCompleted = 0
    /\ p.vapePoints = 0 /\ p.smokePoints = 0
    /\ p.actions = <<>>

\* C17: after checkDailyReset has run (at load, and from the timer),
\* userPoints.date is the current date; if the stored date differed from the
\* current date, totalPoints, actionsCompleted, vapePoints and smokePoints
\* are 0 and actions is empty; if the stored date was the current date
\* already, userPoints is unchanged.
C17_DailyReset ==
    [][ /\ lastHandler' \in {"checkDailyReset", "PointsSummary.checkDailyReset"} =>
               \A before \in userPoints :
                   /\ \E after \in userPoints' : after.date = {today'}
                   /\ before.date # {today} => \A after \in userPoints' : noPoints(after)
                   /\ before.date = {today} => userPoints' = userPoints
        /\ lastHandler' = "initializeApp" =>
               /\ \E after \in userPoints' : after.date = {today'}
               /\ \A stored \in localStorage.userPoints :
                      /\ stored.date # {today} => \A after \in userPoints' : noPoints(after)
                      /\ stored.date = {today} => userPoints' = localStorage.userPoints ]_vars

\* C17 witness: on the second day the timer has run checkDailyReset and the
\* points carry the new date and no point, in appState and in localStorage.
C17_Witness ==
    /\ today = 2
    /\ lastHandler = "checkDailyReset"
    /\ userPoints = {freshUserPoints(2)}
    /\ localStorage.userPoints = userPoints

\* C18: after initializeApp has completed, appState.currentView is 'report',
\* whatever an earlier session left in localStorage.
C18_ReportOnLoad ==
    (page = "running" /\ lastHandler = "initializeApp") => currentView = "report"

\* the other spelling of a property name
otherSpelling(p) ==
    IF p \in ScoreNames THEN camelCase(p)
    ELSE CHOOSE f \in ScoreNames : camelCase(f) = p

\* C19: for every zone, with snake_case or camelCase fields, present or
\* missing, and every view mode value, HeatmapView.calculateState and
\* ZoneInspector.calculateState return the same state, so the color on the
\* map and the message in the inspector agree for the same data.
C19_CopiesAgree ==
    /\ state = actualState
    /\ colorOf(state) = Lookup(ZoneInspector_stateColors, actualState)
    /\ messageOf(actualState) = Lookup(HeatmapView_stateMessages, state)
    /\ \A type \in MapTypeValues :
           HeatmapView_calculateState(zone, type) = ZoneInspector_calculateState(zone, type)
    /\ \A p \in PropertyNames :
           LET both == [zone EXCEPT ![otherSpelling(p)] = Num(DEBT_INCREMENT)]
           IN  HeatmapView_calculateState(both, mapType)
                   = ZoneInspector_calculateState(both, mapType)

\* C19 witness: a camelCase zone without some of its scores, shown in the
\* combined view after points were added, is recovered for both components.
C19_Witness ==
    /\ usesCamelCase(zone)
    /\ leftOut(zone) # {}
    /\ pointsAdded > 0
    /\ mapType = "all"
    /\ netOf(zone, "all") = 21
    /\ state = "recovered"
    /\ actualState = "recovered"

\* C20: whichever way the zone fetch of show ends (OK with the zone
\* present, OK with the zone absent, a response that is not OK, a network
\* failure), show completes without an exception and renders a state
\* message, from the zone's data or, when they could not be obtained, from
\* all-zero zone data.
C20_EveryFetchOutcomeHandled ==
    (zoneInfo # {} /\ ~inspector.fetching) =>
        /\ inspector.outcome = "rendered"
        /\ inspector.message \in {messageOf(s) : s \in States}
        /\ inspector.zoneData # {}
        /\ inspector.zoneData \notin ServerEntries => inspector.zoneData = {defaultZoneData}

\* C21: after a click on an item of the navigation bar, whichever item it
\* is, NavigationBar.getCurrentView() equals appState.currentView.
C21_NavigationAgrees ==
    (page = "running" /\ lastHandler = "NavigationBar.handleViewChange") =>
        navCurrentView = currentView

\* C23: when seedDemoData finishes after an OK response to its seed
\* request, appState.currentView designates the heatmap view ('map').
C23_SeedShowsHeatmap ==
    [][(lastHandler' = "seedDemoData"
        /\ task.seed \in {"zones", "points", "events"}
        /\ task'.seed = "idle") => currentView' = "map"]_vars

\* C24: when POST /api/reset is answered with a response that is not OK, or
\* fetch throws, resetAllData leaves zones, userPoints, events, currentView
\* and localStorage as they are; when the response is OK, zones and events
\* are emptied, userPoints is the zero object dated today, localStorage
\* holds the same, and at the step resetAllData finishes with currentView
\* is 'report' in appState and in localStorage.
C24_ResetAfterBackend ==
    /\ [][(lastHandler' = "resetAllData" /\ task.reset = "reset") =>
              IF task'.reset = "idle"
              THEN UNCHANGED <<heldZones, userPoints, heldEvents, currentView, localStorage>>
              ELSE /\ heldZones' = {}
                   /\ heldEvents' = {}
                   /\ userPoints' = {freshUserPoints(today)}
                   /\ localStorage'.zones = {{}}
                   /\ localStorage'.events = {{}}
                   /\ localStorage'.userPoints = userPoints']_vars
    /\ [][(lastHandler' = "resetAllData"
           /\ task.reset \in {"zones", "points", "events"}
           /\ task'.reset = "idle") =>
              /\ currentView' = "report"
              /\ localStorage'.currentView = "report"]_vars

\* C24 witness: with zones, events and points held on the Community view,
\* the reset request was answered OK and the local state has just been
\* cleared, refreshAllViews awaiting its first response.
C24_Witness ==
    /\ lastHandler = "resetAllData"
    /\ task.reset = "zones"
    /\ heldZones = {}
    /\ heldEvents = {}
    /\ userPoints = {freshUserPoints(today)}
    /\ localStorage.zones = {{}}
    /\ navCurrentView = "community"

\* C24 witness of the failure: the request failed while zones, events and
\* points were held, and they are held still.
C24_FailureKeepsState ==
    /\ lastHandler = "resetAllData"
    /\ task.reset = "idle"
    /\ heldZones # {}
    /\ heldEvents # {}
    /\ \E p \in userPoints : p.totalPoints > 0
    /\ currentView = "community"
    /\ localStorage.zones = {heldZones}

\* C22: at the step handleMapTypeToggle(type) completes, for type 'vape',
\* 'smoke' or 'all', appState.currentMapType equals HeatmapView.getMapType().
C22_MapTypeAgrees ==
    [][(\E i \in 1..Len(inFlight) :
            /\ inFlight[i].by = "toggle"
            /\ inFlight' = RemoveAt(inFlight, i)) =>
           currentMapType' = heatmapMapType']_vars

\* C25: a card never has two POST /api/actions in flight; a click on an
\* action item while one is in flight, or while the card has no zoneId,
\* sends nothing; and after a request that failed isProcessing is false.
C25_OneCompletionAtATime ==
    /\ [](card.inFlight <= 1)
    /\ [][(card'.last = "click" /\ (card.inFlight > 0 \/ card.zoneId = {})) =>
              card'.inFlight = card.inFlight]_vars
    /\ [][(card'.last = "response" /\ card'.inFlight < card.inFlight
           /\ card'.outcome # "ok") => ~card'.isProcessing]_vars

\* C25 witness: a request failed, its error is shown, and the click that
\* followed sent the request again.
C25_Witness ==
    /\ card.last = "click"
    /\ card.outcome \in {"not_ok", "failed"}
    /\ card.error
    /\ card.isProcessing
    /\ card.inFlight = 1

\* C26: a form never has two POST /api/reports in flight; every report in
\* flight was sent with a type selected and a location held; and at the step
\* a response ends handleSubmit, isSubmitting is false, with the selections
\* cleared when the request succeeded and kept when it failed.
C26_NoDoubleSubmission ==
    /\ [](Len(form.inFlight) <= 1)
    /\ [](\A i \in 1..Len(form.inFlight) :
              form.inFlight[i].type \in {"smoke", "vape"} /\ form.inFlight[i].location)
    /\ [][(form'.last = "response" /\ Len(form'.inFlight) < Len(form.inFlight)) =>
              /\ ~form'.isSubmitting
              /\ form'.outcome = "ok" =>
                     form'.selectedType = "null" /\ form'.selectedContext = "null"
              /\ form'.outcome # "ok" =>
                     /\ form'.selectedType = form.selectedType
                     /\ form'.selectedContext = form.selectedContext]_vars

\* C26 witness: with a type selected and a location held, a submit click
\* was turned away because a submission is under way.
C26_Witness ==
    /\ form.last = "handleSubmit"
    /\ ~form.sent
    /\ form.selectedType # "null"
    /\ form.currentLocation
    /\ form.isSubmitting
    /\ Len(form.inFlight) = 1

\* C27: while the flow is at step 2, selectedType is the type of the report
\* whose response led there, 'vape' or 'smoke', and a location is held;
\* every POST /api/actions carried the type 'vape' or 'smoke'.
C27_TypeOfLoggedReport ==
    /\ flow.step = 2 =>
           /\ flow.loggedType \in {"vape", "smoke"}
           /\ flow.selectedType = flow.loggedType
           /\ flow.currentLocation
    /\ flow.sentType \in {"none", "vape", "smoke"}

\* C28: the flow sends at most one POST /api/actions for one logged report.
C28_OneCompletionPerReport ==
    flow.sentForReport <= 1

====
